---- MODULE Spec2Model ----
(***************************************************************************)
(* Verification model of the Family Link integration: the session store    *)
(* (auth/session.py), the API client's secret extraction and failure       *)
(* mapping (client/api.py), the response parsers (client/parsers.py) and   *)
(* the polling coordinator (coordinator.py).                               *)
(*                                                                         *)
(* Python values that may be absent are modelled as sequences of length    *)
(* 0 (None / missing key) or 1 (present).                                  *)
(***************************************************************************)
EXTENDS Integers, Sequences, FiniteSets, TLC

\* ------------------------------------------------------------------------
\* Bounds
\* ------------------------------------------------------------------------
MaxCookies == 2

\* ------------------------------------------------------------------------
\* Session store  (auth/session.py)
\* ------------------------------------------------------------------------

\* The clock read by is_authenticated, and one instant before / after it.
Now == 5
PAST == Now - 1
FUTURE == Now + 1

None == << >>
Some(v) == << v >>

\* An "expires" / "expirationDate" field: missing, a number, or some
\* non-empty text (an ISO date string for instance).
NoExp == [t |-> "none", v |-> 0]
NumExp(n) == [t |-> "num", v |-> n]
StrExp == [t |-> "str", v |-> 0]

\* Python truthiness of such a field.
Truthy(e) == e.t = "str" \/ (e.t = "num" /\ e.v # 0)

\* Python's  a or b.
PyOr(a, b) == IF Truthy(a) THEN a ELSE b

SAPISID_NAMES == {"SAPISID", "__Secure-3PAPISID", "__Secure-1PAPISID", "APISID"}

\* Domains that contain the text ".google.com".
GoogleDomains == {".google.com"}

Cookie(n, d, e1, e2) ==
  [name |-> n, value |-> n, domain |-> d, expires |-> e1, expirationDate |-> e2]

\* Expiry of the first cookie of the signing set decides.
RECURSIVE AuthScan(_, _)
AuthScan(cookies, i) ==
  IF i > Len(cookies) THEN TRUE
  ELSE IF cookies[i].name \notin SAPISID_NAMES THEN AuthScan(cookies, i + 1)
  ELSE LET expires == PyOr(cookies[i].expires, cookies[i].expirationDate)
       IN  IF Truthy(expires) /\ expires.t = "num" /\ expires.v > 0 /\ Now > expires.v
           THEN FALSE
           ELSE TRUE

\* The expiry check applied to every cookie of the list.
is_authenticated_AllCookies(session_data) ==
  IF session_data = None THEN FALSE
  ELSE IF session_data[1] = << >> THEN FALSE
  ELSE \A i \in DOMAIN session_data[1] :
         LET expires == PyOr(session_data[1][i].expires, session_data[1][i].expirationDate)
         IN  ~(Truthy(expires) /\ expires.t = "num" /\ expires.v > 0 /\ Now > expires.v)

\* SessionManager.is_authenticated; session_data is None or Some(cookie list).
is_authenticated(session_data) ==
  IF session_data = None THEN FALSE
  ELSE IF session_data[1] = << >> THEN FALSE
  ELSE AuthScan(session_data[1], 1)

\* SessionManager.async_load_session: the session loaded from the config.
async_load_session(config_cookies) ==
  IF config_cookies = << >> THEN None ELSE Some(config_cookies)

\* ------------------------------------------------------------------------
\* Errors.  An error is a kind (the exception class) and its message, a
\* sequence of text fragments.
\* ------------------------------------------------------------------------
Err(k, m) == [kind |-> k, msg |-> m]
NoErr == Err("", << >>)

\* Outcome of a call: a returned value (wrapped) or a raised error.
Ok(v) == [ok |-> TRUE, value |-> <<v>>, err |-> NoErr]
Fail(e) == [ok |-> FALSE, value |-> << >>, err |-> e]

\* Class hierarchy of the integration's exceptions.
Ancestors(kind) ==
  IF kind \in {"AuthenticationError", "SessionExpiredError", "NetworkError",
               "TransientNetworkError", "DeviceControlError", "RemoteError"}
  THEN {kind, "FamilyLinkException", "Exception"}
  ELSE {kind, "Exception"}

IsInstance(e, cls) == cls \in Ancestors(e.kind)

\* ------------------------------------------------------------------------
\* Secret extraction  (client/api.py)
\* ------------------------------------------------------------------------
FirstIndex(cookies, P(_)) ==
  LET hits == {i \in DOMAIN cookies : P(cookies[i])}
  IN  IF hits = {} THEN 0 ELSE CHOOSE i \in hits : \A j \in hits : i <= j

IsPrimarySecret(c) == c.name = "SAPISID" /\ c.domain \in GoogleDomains
IsFallbackSecret(c) == c.name \in {"__Secure-3PAPISID", "APISID"}

\* A secret extraction that also accepts the plain SID cookie.
get_sapisid_AnySid(session_data) ==
  IF session_data = None
  THEN Fail(Err("AuthenticationError", <<"No active session - please re-authenticate">>))
  ELSE LET cookies == session_data[1]
           f == FirstIndex(cookies, LAMBDA c : c.name \in SAPISID_NAMES \cup {"SID"})
       IN  IF f # 0 THEN Ok(cookies[f].value)
           ELSE Fail(Err("AuthenticationError", <<"SAPISID cookie not found">>))

\* FamilyLinkClient._get_sapisid
_get_sapisid(session_data) ==
  IF session_data = None
  THEN Fail(Err("AuthenticationError", <<"No active session - please re-authenticate">>))
  ELSE LET cookies == session_data[1]
           p == FirstIndex(cookies, IsPrimarySecret)
           f == FirstIndex(cookies, IsFallbackSecret)
       IN  IF p # 0 THEN Ok(cookies[p].value)
           ELSE IF f # 0 THEN Ok(cookies[f].value)
           ELSE Fail(Err("AuthenticationError", <<"SAPISID cookie not found">>))

\* ------------------------------------------------------------------------
\* Text.  Text whose characters matter (durations, millisecond counts,
\* device identifiers) is a sequence of one-character strings.
\* ------------------------------------------------------------------------
DigitChars == <<"0", "1", "2", "3", "4", "5", "6", "7", "8", "9">>
Digits == {DigitChars[i] : i \in DOMAIN DigitChars}
DigitVal(c) == (CHOOSE i \in DOMAIN DigitChars : DigitChars[i] = c) - 1

UpperChars == <<"A", "F", "I", "N", "T", "Y">>
LowerChars == <<"a", "f", "i", "n", "t", "y">>
LowerChar(c) ==
  IF \E i \in DOMAIN UpperChars : UpperChars[i] = c
  THEN LowerChars[CHOOSE i \in DOMAIN UpperChars : UpperChars[i] = c]
  ELSE c
Lower(s) == [i \in DOMAIN s |-> LowerChar(s[i])]

\* str.rstrip(ch)
RECURSIVE RStrip(_, _)
RStrip(s, ch) ==
  IF s # << >> /\ s[Len(s)] = ch THEN RStrip(SubSeq(s, 1, Len(s) - 1), ch) ELSE s

AllDigits(s) == s # << >> /\ \A i \in DOMAIN s : s[i] \in Digits

RECURSIVE DecimalValue(_)
DecimalValue(s) ==
  IF s = << >> THEN 0
  ELSE 10 * DecimalValue(SubSeq(s, 1, Len(s) - 1)) + DigitVal(s[Len(s)])

\* s[-n:]
LastChars(s, n) == IF Len(s) <= n THEN s ELSE SubSeq(s, Len(s) - n + 1, Len(s))

\* float(s) for the spellings: [sign] digits [. digits], nan, inf, infinity
\* (letters in either case).  A finite value is kept as its integer part and
\* sign, which is all that int() of it uses.  Anything else is a ValueError.
PyFloat(s) ==
  LET signed == s # << >> /\ s[1] \in {"-", "+"}
      neg == s # << >> /\ s[1] = "-"
      body == IF signed THEN SubSeq(s, 2, Len(s)) ELSE s
      dots == {i \in DOMAIN body : body[i] = "."}
      whole == IF dots = {} THEN body
               ELSE SubSeq(body, 1, (CHOOSE i \in dots : TRUE) - 1)
      frac == IF dots = {} THEN << >>
              ELSE SubSeq(body, (CHOOSE i \in dots : TRUE) + 1, Len(body))
      numeric == /\ Cardinality(dots) <= 1
                 /\ \A i \in DOMAIN body : body[i] \in Digits \cup {"."}
                 /\ (whole # << >> \/ frac # << >>)
      mag == IF whole = << >> THEN 0 ELSE DecimalValue(whole)
  IN  IF numeric THEN [t |-> "num", v |-> IF neg THEN 0 - mag ELSE mag]
      ELSE IF Lower(body) = <<"n", "a", "n">> THEN [t |-> "nan", v |-> 0]
      ELSE IF Lower(body) \in {<<"i", "n", "f">>, <<"i", "n", "f", "i", "n", "i", "t", "y">>}
           THEN [t |-> "inf", v |-> 0]
      ELSE [t |-> "ValueError", v |-> 0]

\* ------------------------------------------------------------------------
\* parse_usage / parse_restrictions  (client/parsers.py)
\*
\* An appsandusage response is a record  [apps, appUsageSessions]  of
\* sequences; a key that may be missing is None or Some(value).
\* ------------------------------------------------------------------------
Today == [year |-> 2026, month |-> 11, day |-> 3]

OptStr(o) == IF o = None THEN "" ELSE o[1]

\* package -> title of the apps that carry both; a later app overrides.
RECURSIVE PkgToTitle(_, _, _)
PkgToTitle(apps, i, pkg) ==
  IF i = 0 THEN pkg
  ELSE IF /\ OptStr(apps[i].packageName) = pkg
          /\ OptStr(apps[i].packageName) # ""
          /\ OptStr(apps[i].title) # ""
       THEN OptStr(apps[i].title)
       ELSE PkgToTitle(apps, i - 1, pkg)

\* Seconds of one session: a number, or the OverflowError of int(inf).
SessionSeconds(session) ==
  LET raw_dur == RStrip(IF session.usage = None THEN <<"0", "s">> ELSE session.usage[1], "s")
      f == PyFloat(raw_dur)
  IN  IF f.t = "inf" THEN f ELSE [t |-> "num", v |-> IF f.t = "num" THEN f.v ELSE 0]

SessionPkg(session) ==
  IF session.appId = None THEN "" ELSE OptStr(session.appId[1].androidAppPackageName)

\* list.sort(key=usage_seconds, reverse=True): stable, descending.
RECURSIVE InsertDesc(_, _)
InsertDesc(sorted, x) ==
  IF sorted = << >> THEN <<x>>
  ELSE IF sorted[Len(sorted)].usage_seconds >= x.usage_seconds THEN Append(sorted, x)
  ELSE Append(InsertDesc(SubSeq(sorted, 1, Len(sorted) - 1), x), sorted[Len(sorted)])

\* The list left in the order of the response.
SortDesc_Unsorted(l) == l

RECURSIVE SortDesc(_)
SortDesc(l) ==
  IF l = << >> THEN << >>
  ELSE InsertDesc(SortDesc(SubSeq(l, 1, Len(l) - 1)), l[Len(l)])

\* parse_usage without the test of the session's date.
parse_usage_AnyDate(raw) ==
  LET todays == raw.appUsageSessions
      overflow == \E i \in DOMAIN todays : SessionSeconds(todays[i]).t = "inf"
      usage_list == [i \in DOMAIN todays |->
                       [app_name |-> PkgToTitle(raw.apps, Len(raw.apps), SessionPkg(todays[i])),
                        usage_seconds |-> SessionSeconds(todays[i]).v]]
  IN  IF overflow
      THEN Fail(Err("OverflowError", <<"cannot convert float infinity to integer">>))
      ELSE Ok(SortDesc(usage_list))

parse_usage(raw) ==
  LET todays == SelectSeq(raw.appUsageSessions, LAMBDA ss : ss.date = Some(Today))
      overflow == \E i \in DOMAIN todays : SessionSeconds(todays[i]).t = "inf"
      usage_list == [i \in DOMAIN todays |->
                       [app_name |-> PkgToTitle(raw.apps, Len(raw.apps), SessionPkg(todays[i])),
                        usage_seconds |-> SessionSeconds(todays[i]).v]]
  IN  IF overflow
      THEN Fail(Err("OverflowError", <<"cannot convert float infinity to integer">>))
      ELSE Ok(SortDesc(usage_list))

\* A supervisionSetting:  hidden (BOOLEAN), usageLimit (None, or Some record
\* with  nonempty  and  dailyUsageLimitMins), alwaysAllowedState (text).
NoSetting == [hidden |-> FALSE, usageLimit |-> None, alwaysAllowedState |-> ""]

\* parse_restrictions with three independent tests in place of the
\* if / elif chain.
RECURSIVE Classify_Independent(_, _)
Classify_Independent(apps, i) ==
  IF i = 0
  THEN [limited |-> << >>, blocked |-> << >>, always_allowed |-> << >>, supervisable |-> << >>]
  ELSE LET acc == Classify_Independent(apps, i - 1)
           app == apps[i]
           pkg == OptStr(app.packageName)
           title == IF app.title = None THEN pkg ELSE app.title[1]
           settings == IF app.supervisionSetting = None THEN NoSetting
                       ELSE app.supervisionSetting[1]
           can_limit == \E k \in DOMAIN app.supervisionCapabilities :
                           app.supervisionCapabilities[k] = "capabilityUsageLimit"
           is_blocked == settings.hidden
           is_always_allowed == settings.alwaysAllowedState = "alwaysAllowedStateEnabled"
           has_limit == settings.usageLimit # None /\ settings.usageLimit[1].nonempty
       IN  [limited |->
              IF has_limit
              THEN Append(acc.limited,
                          [app |-> title,
                           limit_minutes |-> settings.usageLimit[1].dailyUsageLimitMins,
                           package |-> pkg])
              ELSE acc.limited,
            blocked |-> IF is_blocked THEN Append(acc.blocked, title) ELSE acc.blocked,
            always_allowed |->
              IF is_always_allowed
              THEN Append(acc.always_allowed, title)
              ELSE acc.always_allowed,
            supervisable |->
              IF can_limit /\ ~is_blocked /\ ~is_always_allowed
              THEN Append(acc.supervisable, [package |-> pkg, title |-> title])
              ELSE acc.supervisable]

RECURSIVE Classify(_, _)
Classify(apps, i) ==
  IF i = 0
  THEN [limited |-> << >>, blocked |-> << >>, always_allowed |-> << >>, supervisable |-> << >>]
  ELSE LET acc == Classify(apps, i - 1)
           app == apps[i]
           pkg == OptStr(app.packageName)
           title == IF app.title = None THEN pkg ELSE app.title[1]
           settings == IF app.supervisionSetting = None THEN NoSetting
                       ELSE app.supervisionSetting[1]
           can_limit == \E k \in DOMAIN app.supervisionCapabilities :
                           app.supervisionCapabilities[k] = "capabilityUsageLimit"
           is_blocked == settings.hidden
           is_always_allowed == settings.alwaysAllowedState = "alwaysAllowedStateEnabled"
           has_limit == settings.usageLimit # None /\ settings.usageLimit[1].nonempty
       IN  [limited |->
              IF ~is_blocked /\ has_limit
              THEN Append(acc.limited,
                          [app |-> title,
                           limit_minutes |-> settings.usageLimit[1].dailyUsageLimitMins,
                           package |-> pkg])
              ELSE acc.limited,
            blocked |-> IF is_blocked THEN Append(acc.blocked, title) ELSE acc.blocked,
            always_allowed |->
              IF ~is_blocked /\ ~has_limit /\ is_always_allowed
              THEN Append(acc.always_allowed, title)
              ELSE acc.always_allowed,
            supervisable |->
              IF can_limit /\ ~is_blocked /\ ~is_always_allowed
              THEN Append(acc.supervisable, [package |-> pkg, title |-> title])
              ELSE acc.supervisable]

\* parse_restrictions without the derived supervisable list.
parse_restrictions_ThreeKeys(raw) ==
  [k \in {"limited", "blocked", "always_allowed"} |-> Classify(raw.apps, Len(raw.apps))[k]]

parse_restrictions(raw) == Classify(raw.apps, Len(raw.apps))

\* ------------------------------------------------------------------------
\* Decoded JSON whose shape is inspected at run time: a tagged value.
\* "str" holds characters; "text" is a non-empty, non-numeric text whose
\* characters are never inspected.
\* ------------------------------------------------------------------------
JNull == [t |-> "null", v |-> 0]
JBool(b) == [t |-> "bool", v |-> b]
JInt(n) == [t |-> "int", v |-> n]
JStr(cs) == [t |-> "str", v |-> cs]
JText(s) == [t |-> "text", v |-> <<s>>]
JList(l) == [t |-> "list", v |-> l]
JDict(d) == [t |-> "dict", v |-> d]

JIsStr(j) == j.t \in {"str", "text"}
JIsInt(j) == j.t \in {"int", "bool"}        \* bool is a subclass of int

\* bool(j)
JTruthy(j) ==
  CASE j.t = "null" -> FALSE
    [] j.t = "bool" -> j.v
    [] j.t = "int"  -> j.v # 0
    [] j.t = "str"  -> j.v # << >>
    [] j.t = "text" -> TRUE
    [] j.t = "list" -> j.v # << >>
    [] j.t = "dict" -> DOMAIN j.v # {}

\* dict.get(key, default)
JGet(d, key, default) == IF key \in DOMAIN d.v THEN d.v[key] ELSE default

\* list[k] with Python's zero-based index
At(l, k) == l.v[k + 1]
JLen(l) == Len(l.v)

\* The number an int-like value stands for (True is 1).
IntOf(j) == IF j.t = "bool" THEN (IF j.v THEN 1 ELSE 0) ELSE j.v

\* int(j): a number, or the ValueError / TypeError the caller catches.
PyInt(j) ==
  CASE JIsInt(j) -> [t |-> "num", v |-> IntOf(j)]
    [] j.t = "str" ->
         LET signed == j.v # << >> /\ j.v[1] \in {"-", "+"}
             body == IF signed THEN SubSeq(j.v, 2, Len(j.v)) ELSE j.v
         IN  IF AllDigits(body)
             THEN [t |-> "num",
                   v |-> IF j.v[1] = "-" THEN 0 - DecimalValue(body) ELSE DecimalValue(body)]
             ELSE [t |-> "ValueError", v |-> 0]
    [] j.t = "text" -> [t |-> "ValueError", v |-> 0]
    [] OTHER -> [t |-> "TypeError", v |-> 0]

MillisPerMinute == 60000

\* int(x) // 60_000, or 0 when  x is None  or int(x) raises.
UsageMinutes(j) ==
  IF j.t = "null" \/ PyInt(j).t # "num" THEN 0 ELSE PyInt(j).v \div MillisPerMinute

Device(id, locked, policy, action, used, limit) ==
  [device_id |-> id, is_locked |-> locked, active_policy |-> policy,
   override_action |-> action, usage_minutes_today |-> used,
   today_limit_minutes |-> limit]

\* ------------------------------------------------------------------------
\* parse_applied_time_limits  (client/parsers.py)
\* ------------------------------------------------------------------------

\* Keyed-object shape: one entry of "appliedTimeLimits".
DictEntryId(entry) ==
  IF entry.t = "dict" THEN JGet(entry, "deviceId", JStr(<< >>)) ELSE JNull

DictEntryDevice(entry) ==
  LET limit_entry == JGet(entry, "currentUsageLimitEntry", JDict(<< >>))
      quota == IF limit_entry.t = "dict" THEN JGet(limit_entry, "usageQuotaMins", JNull)
               ELSE JNull
  IN  Device(DictEntryId(entry),
             JTruthy(JGet(entry, "isLocked", JBool(FALSE))),
             JGet(entry, "activePolicy", JText("noActivePolicy")),
             None,
             UsageMinutes(JGet(entry, "currentUsageUsedMillis", JNull)),
             IF JIsInt(quota) THEN Some(IntOf(quota)) ELSE None)

\* Positional shape: device id at index 25, lock at 28, overrides at 30,
\* used milliseconds at 19, today's quota at 6.
ListEntryId(entry) ==
  IF entry.t = "list" /\ JLen(entry) > 25 /\ JIsStr(At(entry, 25))
  THEN At(entry, 25) ELSE JStr(<< >>)

ListEntryDevice(entry) ==
  LET is_locked == IF JLen(entry) > 28 THEN JTruthy(At(entry, 28)) ELSE FALSE
      overrides == IF JLen(entry) > 30 /\ At(entry, 30).t = "list"
                   THEN At(entry, 30) ELSE JList(<< >>)
      first == IF JTruthy(overrides) THEN At(overrides, 0) ELSE JNull
      action == IF first.t = "list" /\ JLen(first) > 1 /\ PyInt(At(first, 1)).t = "num"
                THEN Some(PyInt(At(first, 1)).v) ELSE None
      policy == IF action # None THEN "override"
                ELSE IF is_locked THEN "timeLimitOn" ELSE "noActivePolicy"
  IN  Device(ListEntryId(entry),
             is_locked,
             JText(policy),
             action,
             IF JLen(entry) > 19 THEN UsageMinutes(At(entry, 19)) ELSE 0,
             IF JLen(entry) > 6 /\ JIsInt(At(entry, 6)) THEN Some(IntOf(At(entry, 6)))
             ELSE None)

MapSeq(l, F(_)) == [i \in DOMAIN l |-> F(l[i])]

\* parse_applied_time_limits ending at the first record without device id.
parse_applied_time_limits_StopsAtBad(raw) ==
  LET UntilBad(entries, Good(_)) ==
        SubSeq(entries, 1,
               CHOOSE n \in 0..Len(entries) :
                 /\ \A j \in 1..n : Good(entries[j])
                 /\ n = Len(entries) \/ ~Good(entries[n + 1]))
  IN  IF raw.t = "dict"
      THEN LET entries == JGet(raw, "appliedTimeLimits", JList(<< >>))
           IN  IF entries.t # "list" THEN << >>
               ELSE MapSeq(UntilBad(entries.v,
                                    LAMBDA e : e.t = "dict" /\ JTruthy(DictEntryId(e))),
                           DictEntryDevice)
      ELSE IF raw.t = "list" /\ JLen(raw) >= 2
      THEN LET entries_wrapper == At(raw, 1)
           IN  IF entries_wrapper.t # "list" THEN << >>
               ELSE MapSeq(UntilBad(entries_wrapper.v,
                                    LAMBDA e : e.t = "list" /\ JTruthy(ListEntryId(e))),
                           ListEntryDevice)
      ELSE << >>

parse_applied_time_limits(raw) ==
  IF raw.t = "dict"
  THEN LET entries == JGet(raw, "appliedTimeLimits", JList(<< >>))
       IN  IF entries.t # "list" THEN << >>
           ELSE MapSeq(SelectSeq(entries.v,
                                 LAMBDA e : e.t = "dict" /\ JTruthy(DictEntryId(e))),
                       DictEntryDevice)
  ELSE IF raw.t = "list" /\ JLen(raw) >= 2
  THEN LET entries_wrapper == At(raw, 1)
       IN  IF entries_wrapper.t # "list" THEN << >>
           ELSE MapSeq(SelectSeq(entries_wrapper.v,
                                 LAMBDA e : e.t = "list" /\ JTruthy(ListEntryId(e))),
                       ListEntryDevice)
  ELSE << >>

\* ------------------------------------------------------------------------
\* Remote answers.  status 0 is a transport failure (timeout, reset, DNS,
\* undecodable body) described by  text; otherwise an HTTP status.
\* ------------------------------------------------------------------------
Http(status) == [status |-> status, text |-> "", variant |-> "normal"]
Transport(text) == [status |-> 0, text |-> text, variant |-> "normal"]
\* A 200 answer whose body carries an infinite usage duration.
InfUsageAnswer == [status |-> 200, text |-> "", variant |-> "inf_usage"]

IsOkAnswer(resp) == resp.status # 0 /\ resp.status < 400
IsAuthRejection(resp) == resp.status \in {401, 403}
IsTransportFailure(resp) == resp.status = 0
IsOtherHttpFailure(resp) == resp.status >= 400 /\ ~IsAuthRejection(resp)

\* Text fragments that contain the characters "401".
TextsWith401 == {"401", "Expecting value: line 1 column 401"}

\* "401" in str(err)
Contains401(msg) == \E i \in DOMAIN msg : msg[i] \in TextsWith401

\* ------------------------------------------------------------------------
\* API client read operations  (client/api.py)
\* ------------------------------------------------------------------------

\* The try/except around one GET: raise_for_status() and every other
\* exception of the request become NetworkError.
ReadFailure(resp, what) ==
  IF resp.status = 0
  THEN Err("NetworkError", <<"Failed to fetch ", what, ": ", resp.text>>)
  ELSE Err("NetworkError", <<"HTTP ", ToString(resp.status), " while fetching ", what>>)

\* A request is sent only when _auth_headers() found a signing secret.
SendsRequest(session_data) == _get_sapisid(session_data).ok

\* FamilyLinkClient.async_get_members: supervised members of the body.
async_get_members(session_data, resp, body) ==
  IF ~SendsRequest(session_data) THEN Fail(_get_sapisid(session_data).err)
  ELSE IF ~IsOkAnswer(resp) THEN Fail(ReadFailure(resp, "members"))
  ELSE Ok(MapSeq(SelectSeq(body, LAMBDA m : m.isSupervisedMember),
                 LAMBDA m : [child_id |-> m.userId, name |-> m.displayName,
                             email |-> m.email]))

\* FamilyLinkClient.async_get_apps_and_usage: the raw response.
async_get_apps_and_usage(session_data, resp, body) ==
  IF ~SendsRequest(session_data) THEN Fail(_get_sapisid(session_data).err)
  ELSE IF ~IsOkAnswer(resp) THEN Fail(ReadFailure(resp, "app usage"))
  ELSE Ok(body)

\* FamilyLinkClient.async_get_applied_time_limits: the parsed device list.
async_get_applied_time_limits(session_data, resp, body) ==
  IF ~SendsRequest(session_data) THEN Fail(_get_sapisid(session_data).err)
  ELSE IF ~IsOkAnswer(resp) THEN Fail(ReadFailure(resp, "applied time limits"))
  ELSE Ok(parse_applied_time_limits(body))

\* x[k] on a decoded value: the element, or the error of the subscript.
\* ("text" values are opaque and stand only where nothing subscripts them.)
Subscript(x, k) ==
  IF ~x.ok THEN x
  ELSE LET j == x.value[1]
       IN  CASE j.t = "list" -> IF k < JLen(j) THEN Ok(At(j, k))
                                ELSE Fail(Err("IndexError", << >>))
             [] j.t = "str"  -> IF k < Len(j.v) THEN Ok(JStr(<<j.v[k + 1]>>))
                                ELSE Fail(Err("IndexError", << >>))
             [] j.t = "dict" -> Fail(Err("KeyError", << >>))
             [] OTHER        -> Fail(Err("TypeError", << >>))

\* A dict key: True and 1 are the same key.
KeyOf(j) == IF j.t = "bool" THEN JInt(IntOf(j)) ELSE j

Hashable(j) == j.t \notin {"list", "dict"}

\* The loop over the schedule entries: day_num -> {entry_id, quota_mins};
\* an entry that is too short or not subscriptable is skipped.
RECURSIVE DayMap(_, _)
DayMap(entries, i) ==
  IF i = 0 THEN << >>
  ELSE LET acc == DayMap(entries, i - 1)
           e == Ok(entries[i])
           usable == Subscript(e, 0).ok /\ Subscript(e, 1).ok /\ Subscript(e, 3).ok
                     /\ Hashable(Subscript(e, 1).value[1])
       IN  IF ~usable THEN acc
           ELSE LET day == KeyOf(Subscript(e, 1).value[1])
                    row == [entry_id |-> Subscript(e, 0).value[1],
                            quota_mins |-> Subscript(e, 3).value[1]]
                IN  [d \in DOMAIN acc \cup {day} |-> IF d = day THEN row ELSE acc[d]]

\* What  for entry in entries  iterates over, or the TypeError of the loop.
\* (The keys of a JSON object found there are taken to be shorter than four
\* characters, so each of them is skipped by the loop body.)
Iterate(j) ==
  CASE j.t = "list" -> Ok(j.v)
    [] j.t = "str"  -> Ok([i \in DOMAIN j.v |-> JStr(<<j.v[i]>>)])
    [] j.t = "dict" -> Ok(<< >>)
    [] OTHER        -> Fail(Err("TypeError", <<"object is not iterable">>))

\* FamilyLinkClient.async_get_time_limit; body is None when the text is not
\* JSON, else Some(decoded value) with a dict standing for any JSON object.
async_get_time_limit(session_data, resp, body) ==
  IF ~SendsRequest(session_data) THEN Fail(_get_sapisid(session_data).err)
  ELSE IF ~IsOkAnswer(resp) THEN Fail(ReadFailure(resp, "time limits"))
  ELSE IF body = None THEN Ok(<< >>)
  ELSE LET entries == Subscript(Subscript(Subscript(Subscript(Ok(body[1]), 1), 1), 0), 2)
       IN  IF ~entries.ok THEN Ok(<< >>)
           ELSE IF ~Iterate(entries.value[1]).ok THEN Fail(Iterate(entries.value[1]).err)
           ELSE Ok(DayMap(Iterate(entries.value[1]).value[1],
                          Len(Iterate(entries.value[1]).value[1])))

\* FamilyLinkClient.async_get_device_names: device_id -> display name, with
\* the failure mapping of the API client contract.
async_get_device_names(session_data, resp, body) ==
  IF ~SendsRequest(session_data) THEN Fail(_get_sapisid(session_data).err)
  ELSE IF IsAuthRejection(resp)
       THEN Fail(Err("SessionExpiredError", <<"HTTP ", ToString(resp.status)>>))
  ELSE IF IsTransportFailure(resp) THEN Fail(Err("TransientNetworkError", <<resp.text>>))
  ELSE IF ~IsOkAnswer(resp) THEN Fail(Err("RemoteError", <<"HTTP ", ToString(resp.status)>>))
  ELSE Ok(body)

\* ------------------------------------------------------------------------
\* Bounds of the coordinator model
\* ------------------------------------------------------------------------
MaxChildren == 2      \* supervised children in the largest roster
MaxCycles == 2        \* poll cycles in one behaviour
MaxFaults == 1        \* failing per-child fetches in one behaviour

\* ------------------------------------------------------------------------
\* State
\* ------------------------------------------------------------------------
VARIABLES
  sess_config,    \* cookie list held by the config entry given to a SessionManager
  sess_data,      \* SessionManager._session_data
  sess_auth,      \* outcome of the last is_authenticated call, if any
  sess_secret,    \* outcome of the last _get_sapisid call, if any
  entry_cookies,  \* entry.data["cookies"]
  client,         \* coordinator.client: None or Some(client record)
  data,           \* coordinator.data, the published snapshot: None or Some(snapshot)
  pc,             \* position of _async_update_data: "idle" between cycles
  cycle,          \* number of poll cycles started
  locals,         \* children, usage, restrictions, devices, daily_limits of the cycle
  log,            \* the fetches of the current cycle: answer and outcome of each
  issued,         \* the client calls of the current cycle, in the order issued
  last,           \* how the most recent cycle ended
  faults,         \* per-child fetches that have failed so far
  expiry_seen,    \* a session expiry was detected and no fresh session supplied yet
  transports,     \* aiohttp sessions of this coordinator's clients that are open
  clock,          \* time.time() in milliseconds
  app_cache,      \* FamilyLinkClient._app_cache: child -> (lower-case title -> package)
  requests,       \* the requests the most recent client call sent, oldest first
  outcome,        \* the most recent call of a client operation and how it ended
  parse_in,       \* a raw response handed to a parser
  parse_out       \* what the parser returned for it, if it ran

sessVars == <<sess_config, sess_data, sess_auth, sess_secret>>
coordVars == <<entry_cookies, client, data, pc, cycle, locals, log, issued, last,
               faults, expiry_seen, transports>>
clientVars == <<clock, app_cache, requests, outcome>>
parseVars == <<parse_in, parse_out>>
vars == <<sess_config, sess_data, sess_auth, sess_secret,
          entry_cookies, client, data, pc, cycle, locals, log, issued, last,
          faults, expiry_seen, transports, clock, app_cache, requests, outcome,
          parse_in, parse_out>>

\* No client operation has been called.
NoCall == [n |-> 0, op |-> "", args |-> << >>, result |-> Ok(TRUE), cache_before |-> << >>,
           clock_before |-> 0]

ClientInitState ==
  /\ clock = 0
  /\ app_cache = << >>
  /\ requests = << >>
  /\ outcome = NoCall

ParseInitState ==
  /\ parse_in = None
  /\ parse_out = None

\* ------------------------------------------------------------------------
\* The remote service: what it holds for each child.
\* ------------------------------------------------------------------------
ChildIds == <<"child1", "child2", "child3", "child4">>
ChildIndex(cid) == CHOOSE i \in DOMAIN ChildIds : ChildIds[i] = cid

\* families/mine/members: a parent followed by k supervised children.
MembersBody(k) ==
  <<[userId |-> "parent", isSupervisedMember |-> FALSE, displayName |-> "Pat",
     email |-> "pat@example.com"]>>
  \o [i \in 1..k |-> [userId |-> ChildIds[i], isSupervisedMember |-> TRUE,
                      displayName |-> ChildIds[i], email |-> ""]]

UsageSession(pkg, usage, date) ==
  [appId |-> Some([androidAppPackageName |-> Some(pkg)]), usage |-> Some(usage),
   date |-> Some(date)]

\* people/{child}/appsandusage
AppsBody(cid, variant) ==
  [apps |->
     <<[packageName |-> Some("com.google.android.youtube"), title |-> Some("YouTube"),
        supervisionSetting |->
          Some([hidden |-> FALSE,
                usageLimit |-> Some([nonempty |-> TRUE, dailyUsageLimitMins |-> Some(60)]),
                alwaysAllowedState |-> ""]),
        supervisionCapabilities |-> <<"capabilityUsageLimit">>],
       [packageName |-> Some("com.tiktok.android"), title |-> Some("TikTok"),
        supervisionSetting |->
          Some([hidden |-> TRUE, usageLimit |-> None, alwaysAllowedState |-> ""]),
        supervisionCapabilities |-> << >>]>>,
   appUsageSessions |->
     <<UsageSession("com.android.chrome", <<"5", "s">>, Today),
       UsageSession("com.google.android.youtube",
                    IF variant = "inf_usage" THEN <<"i", "n", "f", "s">>
                    ELSE <<DigitChars[ChildIndex(cid) + 1], "0", "s">>,
                    Today),
       UsageSession("com.google.android.youtube", <<"9", "9", "s">>,
                    [year |-> 2000, month |-> 1, day |-> 1])>>]

DeviceIdOf(cid) == JStr(<<"d", "e", "v", "-", "c", DigitChars[ChildIndex(cid) + 1], "-", "a">>)
UsedMillis == JStr(<<"1", "2", "0", "0", "0", "1">>)

Padding(n) == [i \in 1..n |-> JNull]

\* people/{child}/appliedTimeLimits: the keyed-object shape for the children
\* of odd index, the positional shape for the others.
LimitsBody(cid) ==
  IF ChildIndex(cid) % 2 = 1
  THEN JDict([appliedTimeLimits |->
                JList(<<JDict([deviceId |-> DeviceIdOf(cid), isLocked |-> JBool(FALSE),
                               activePolicy |-> JText("usageLimit"),
                               currentUsageUsedMillis |-> UsedMillis,
                               currentUsageLimitEntry |-> JDict([usageQuotaMins |-> JInt(95)])]),
                        JDict([isLocked |-> JBool(TRUE)])>>)])
  ELSE JList(<<JList(<< >>),
               JList(<<JList([[[[Padding(31) EXCEPT ![26] = DeviceIdOf(cid)]
                                                EXCEPT ![29] = JBool(TRUE)]
                                                EXCEPT ![20] = UsedMillis]
                                                EXCEPT ![7] = JInt(95)]),
                       JList(Padding(3))>>)>>)

\* Device display names: known for the children of odd index only.
NamesBody(cid) ==
  IF ChildIndex(cid) % 2 = 1
  THEN [d \in {DeviceIdOf(cid)} |-> JText("Pixel")]
  ELSE << >>

\* people/{child}/timeLimit: entries at data[1][1][0][2].
ScheduleBody(cid) ==
  Some(JList(<<JNull,
               JList(<<JNull,
                       JList(<<JList(<<JNull, JNull,
                                       JList(<<JList(<<JText("CAEQAQ"), JInt(1), JInt(2),
                                                       JInt(60 + ChildIndex(cid))>>),
                                               JList(<<JText("CAEQAg"), JInt(2), JInt(2),
                                                       JInt(90)>>),
                                               JList(<<JText("short")>>)>>)>>)>>)>>)>>))

\* ------------------------------------------------------------------------
\* Polling coordinator  (coordinator.py)
\* ------------------------------------------------------------------------
NotSent == [status |-> 0 - 1, text |-> "", variant |-> "normal"]

RosterAnswers ==
  {Http(200), Http(401), Http(403), Http(500), Transport("Timeout"),
   Transport("Expecting value: line 1 column 401")}
ChildFaults == {Http(401), Http(500), Transport("Timeout")}
AppsFaults == ChildFaults \cup {InfUsageAnswer}

EmptyLocals ==
  [children |-> << >>, usage |-> << >>, restrictions |-> << >>, devices |-> << >>,
   daily_limits |-> None]

Running == [result |-> "running", origin |-> "", err |-> NoErr, reauth |-> 0,
            replaced |-> FALSE, renewal |-> FALSE, written |-> None]
NoCycleYet == [result |-> "none", origin |-> "", err |-> NoErr, reauth |-> 0,
               replaced |-> FALSE, renewal |-> FALSE, written |-> None]

LogEntry(resp, res) == [resp |-> resp, ok |-> res.ok, err |-> res.err]

Ids(children) == {children[i].child_id : i \in DOMAIN children}

Join(f, g) == [x \in DOMAIN f \cup DOMAIN g |-> IF x \in DOMAIN g THEN g[x] ELSE f[x]]

\* FamilyLinkClient.async_authenticate on the session loaded from the entry.
async_authenticate(session_data) ==
  IF session_data = None
  THEN Fail(Err("AuthenticationError", <<"Authentication required">>))
  ELSE IF ~is_authenticated(session_data)
  THEN Fail(Err("SessionExpiredError", <<"Session cookies have expired">>))
  ELSE Ok(TRUE)

\* The except clauses of _async_update_data: does this error start the
\* re-authentication (_async_refresh_auth)?
StartsReauth(e) ==
  \/ IsInstance(e, "SessionExpiredError")
  \/ IsInstance(e, "FamilyLinkException") /\ Contains401(e.msg)

HookError == Err("RuntimeError", <<"async_start_reauth failed">>)

\* No client of the coordinator has opened an aiohttp session.
NoTransports == [held |-> FALSE, leaked |-> FALSE]

\* The open aiohttp sessions after a step that leaves the coordinator with
\* client  cl; opened tells whether the step entered a client operation,
\* whose first await is _get_session.  held: the coordinator's client has an
\* open session; leaked: a client the coordinator no longer refers to has.
\* Dropping the reference (self.client = None) closes nothing.
TransportsAfter(cl, opened) ==
  [held |-> cl # None /\ (transports.held \/ opened),
   leaked |-> transports.leaked \/ (cl = None /\ (transports.held \/ opened))]

\* A cycle ended by an exception raised at  origin.  hookOk tells whether
\* entry.async_start_reauth returns normally when it is invoked.
Raise(e, origin, hookOk) ==
  /\ client' = IF StartsReauth(e) \/ origin = "setup" THEN None ELSE client
  /\ expiry_seen' = (expiry_seen \/ StartsReauth(e))
  /\ last' = [result |-> IF StartsReauth(e) /\ ~hookOk THEN "raised" ELSE "UpdateFailed",
              origin |-> origin,
              err |-> IF StartsReauth(e) /\ ~hookOk THEN HookError ELSE e,
              reauth |-> IF StartsReauth(e) THEN 1 ELSE 0,
              replaced |-> FALSE, renewal |-> FALSE, written |-> None]
  /\ pc' = "idle"
  /\ UNCHANGED <<data, entry_cookies>>

\* _async_update_data up to the first await of the roster fetch, with
\* _async_setup_client when no client exists.
StartCycle ==
  /\ pc = "idle"
  /\ cycle < MaxCycles
  /\ cycle' = cycle + 1
  /\ locals' = EmptyLocals
  /\ log' = << >>
  /\ issued' = << >>
  /\ UNCHANGED <<sessVars, clientVars, parseVars, faults>>
  /\ IF client # None
     THEN /\ pc' = "roster"
          /\ last' = Running
          /\ UNCHANGED <<client, data, entry_cookies, expiry_seen>>
     ELSE LET session_data == async_load_session(entry_cookies)
              auth == async_authenticate(session_data)
          IN  IF auth.ok
              THEN /\ client' = Some([session_data |-> session_data])
                   /\ pc' = "roster"
                   /\ last' = Running
                   /\ UNCHANGED <<data, entry_cookies, expiry_seen>>
              ELSE \E hookOk \in BOOLEAN : Raise(auth.err, "setup", hookOk)
  /\ transports' = TransportsAfter(client', FALSE)

\* children = await self.client.async_get_members()
FetchRoster ==
  /\ pc = "roster"
  /\ issued' = Append(issued, <<"members", "">>)
  /\ UNCHANGED <<sessVars, clientVars, parseVars, cycle, faults>>
  /\ LET session_data == client[1].session_data
     IN  \E resp \in (IF SendsRequest(session_data) THEN RosterAnswers ELSE {NotSent}),
            k \in 0..MaxChildren, hookOk \in BOOLEAN :
           LET res == async_get_members(session_data, resp, MembersBody(k))
           IN  /\ log' = [x \in {<<"members", "">>} |-> LogEntry(resp, res)]
               /\ IF res.ok
                  THEN /\ locals' = [locals EXCEPT !.children = res.value[1]]
                       /\ pc' = IF res.value[1] = << >> THEN "persist" ELSE "apps"
                       /\ UNCHANGED <<client, data, entry_cookies, last,
                                      expiry_seen>>
                  ELSE /\ Raise(res.err, "roster", hookOk)
                       /\ UNCHANGED locals
  /\ transports' = TransportsAfter(client', TRUE)

NoRestrictions == [limited |-> << >>, blocked |-> << >>, always_allowed |-> << >>]

\* The loop over the results of the first gather: an exception among the
\* results gives the child empty usage and restrictions, a response is parsed.
UsageFor_Raises(res) ==
  IF ~res.ok THEN Fail(res.err) ELSE parse_usage(res.value[1])

UsageFor(res) ==
  IF ~res.ok THEN Ok(<< >>) ELSE parse_usage(res.value[1])

RestrictionsFor(res) ==
  IF ~res.ok THEN NoRestrictions ELSE parse_restrictions(res.value[1])

\* The calls a gather issues: for each endpoint in turn, one call for each
\* child of the roster, in roster order.
CallsFor(endpoints, children) ==
  [n \in 1..(Len(endpoints) * Len(children)) |->
     <<endpoints[((n - 1) \div Len(children)) + 1],
       children[((n - 1) % Len(children)) + 1].child_id>>]

\* The first gather (apps-and-usage of every child, exceptions returned) and
\* the loop over its results.
GatherApps ==
  /\ pc = "apps"
  /\ issued' = issued \o CallsFor(<<"apps">>, locals.children)
  /\ UNCHANGED <<sessVars, clientVars, parseVars, cycle>>
  /\ LET session_data == client[1].session_data
         ids == Ids(locals.children)
     IN  \E F \in SUBSET ids :
           /\ faults + Cardinality(F) <= MaxFaults
           /\ \E fault \in [F -> AppsFaults] :
                LET answer(c) == IF c \in F THEN fault[c] ELSE Http(200)
                    res(c) == async_get_apps_and_usage(session_data, answer(c),
                                                       AppsBody(c, answer(c).variant))
                    raising == {i \in DOMAIN locals.children :
                                  ~UsageFor(res(locals.children[i].child_id)).ok}
                IN  /\ faults' = faults + Cardinality(F)
                    /\ log' = Join(log, [x \in {"apps"} \X ids |->
                                           LogEntry(answer(x[2]), res(x[2]))])
                    /\ IF raising = {}
                       THEN /\ locals' =
                                 [locals EXCEPT
                                    !.usage = [c \in ids |-> UsageFor(res(c)).value[1]],
                                    !.restrictions = [c \in ids |-> RestrictionsFor(res(c))]]
                            /\ pc' = "devices"
                            /\ UNCHANGED <<client, data, entry_cookies, last, expiry_seen>>
                       ELSE /\ LET first == CHOOSE i \in raising :
                                              \A j \in raising : i <= j
                               IN  Raise(UsageFor(res(locals.children[first].child_id)).err,
                                         "loop", TRUE)
                            /\ UNCHANGED locals
  /\ transports' = TransportsAfter(client', TRUE)

\* dev["device_name"] = name_map.get(did) or f"...{did[-6:]}"
WithNames(dev_result, name_result) ==
  LET name_map == IF name_result.ok THEN name_result.value[1] ELSE << >>
  IN  [i \in DOMAIN dev_result |->
         LET did == dev_result[i].device_id
             name == IF did \in DOMAIN name_map /\ JTruthy(name_map[did])
                     THEN name_map[did]
                     ELSE JStr(<<"...">> \o LastChars(did.v, 6))
         IN  [device_id |-> did,
              is_locked |-> dev_result[i].is_locked,
              active_policy |-> dev_result[i].active_policy,
              override_action |-> dev_result[i].override_action,
              usage_minutes_today |-> dev_result[i].usage_minutes_today,
              today_limit_minutes |-> dev_result[i].today_limit_minutes,
              device_name |-> name]]

\* The loop over the results of the second gather.
DevicesFor(dev_result, name_result) ==
  IF ~dev_result.ok THEN << >> ELSE WithNames(dev_result.value[1], name_result)

DailyLimitsFor(daily_result) ==
  IF ~daily_result.ok THEN << >> ELSE daily_result.value[1]

\* The second gather (applied time limits, device names and weekly schedule
\* of every child, exceptions returned) and the loop over its results.
GatherDevices ==
  /\ pc = "devices"
  /\ issued' = issued \o CallsFor(<<"limits", "names", "schedule">>, locals.children)
  /\ UNCHANGED <<sessVars, clientVars, parseVars, cycle, client, data, entry_cookies, last,
                 expiry_seen>>
  /\ LET session_data == client[1].session_data
         ids == Ids(locals.children)
         fetches == {"limits", "names", "schedule"} \X ids
     IN  \E F \in SUBSET fetches :
           /\ faults + Cardinality(F) <= MaxFaults
           /\ \E fault \in [F -> ChildFaults] :
                LET answer(x) == IF x \in F THEN fault[x] ELSE Http(200)
                    dev(c) == async_get_applied_time_limits(
                                session_data, answer(<<"limits", c>>), LimitsBody(c))
                    names(c) == async_get_device_names(
                                  session_data, answer(<<"names", c>>), NamesBody(c))
                    daily(c) == async_get_time_limit(
                                  session_data, answer(<<"schedule", c>>), ScheduleBody(c))
                    res(x) == CASE x[1] = "limits" -> dev(x[2])
                                [] x[1] = "names" -> names(x[2])
                                [] x[1] = "schedule" -> daily(x[2])
                IN  /\ faults' = faults + Cardinality(F)
                    /\ log' = Join(log, [x \in fetches |-> LogEntry(answer(x), res(x))])
                    /\ locals' =
                         [locals EXCEPT
                            !.devices = [c \in ids |-> DevicesFor(dev(c), names(c))],
                            !.daily_limits = Some([c \in ids |-> DailyLimitsFor(daily(c))])]
                    /\ pc' = "persist"
  /\ transports' = TransportsAfter(client', TRUE)

\* The cookie list with every value renewed.
Renewed(cookies) == [i \in DOMAIN cookies |-> [cookies[i] EXCEPT !.value = "renewed"]]

\* entry.data: the cookie list among the other keys of the config entry.
EntryData(cookies) ==
  [name |-> "Family Link", update_interval |-> 60, timeout |-> 30, cookies |-> cookies]

\* A write that leaves the entry as it was.
NewEntryData_Unchanged(entry_data, updated) == entry_data

\* new_data = {**self.entry.data, "cookies": updated}
NewEntryData(entry_data, updated) == [entry_data EXCEPT !.cookies = updated]

\* What the transport layer reports to _async_persist_cookies, and whether
\* the write to the config entry goes through.
PersistOutcomes == {"none", "renewed", "lookup_raises", "update_raises"}

Snapshot_KeepsOld(l) ==
  LET old == IF data = None THEN << >> ELSE data[1].usage
  IN  [children |-> l.children, usage |-> Join(old, l.usage),
       restrictions |-> l.restrictions, devices |-> l.devices,
       daily_limits |-> l.daily_limits[1]]

Snapshot(l) ==
  [children |-> l.children, usage |-> l.usage, restrictions |-> l.restrictions,
   devices |-> l.devices, daily_limits |-> l.daily_limits[1]]

\* The end of _async_update_data: the log lines, _async_persist_cookies and
\* the returned snapshot, which the base class stores in  data.
Publish ==
  /\ pc = "persist"
  /\ UNCHANGED <<sessVars, clientVars, parseVars, cycle, locals, log, issued, faults>>
  /\ IF locals.daily_limits = None
     THEN Raise(Err("UnboundLocalError", <<"daily_limits">>), "assemble", TRUE)
     ELSE \E p \in PersistOutcomes :
            IF p = "update_raises"
            THEN Raise(Err("RuntimeError", <<"async_update_entry failed">>), "persist", TRUE)
            ELSE LET updated == IF p = "renewed" THEN Renewed(entry_cookies) ELSE << >>
                     new_data == NewEntryData(EntryData(entry_cookies), updated)
                 IN
                 /\ entry_cookies' = IF updated # << >> THEN new_data.cookies
                                     ELSE entry_cookies
                 /\ data' = Some(Snapshot(locals))
                 /\ last' = [result |-> "snapshot", origin |-> "", err |-> NoErr,
                              reauth |-> 0, replaced |-> (data # None),
                              renewal |-> (p = "renewed"),
                              written |-> IF updated # << >> THEN Some(new_data) ELSE None]
                 /\ pc' = "idle"
                 /\ UNCHANGED <<client, expiry_seen>>
  /\ transports' = TransportsAfter(client', FALSE)

\* Sessions an external acquisition flow stores in the config entry.
SessionChoices ==
  { <<Cookie("SAPISID", ".google.com", NumExp(FUTURE), NoExp)>>,
    <<Cookie("SAPISID", ".google.com", NumExp(PAST), NoExp)>>,
    <<Cookie("SID", ".google.com", NoExp, NoExp)>>,
    << >> }

\* The re-authentication flow ends: new cookies are stored in the entry and
\* the entry is reloaded, which builds a new coordinator.
SupplyFreshSession ==
  /\ pc = "idle"
  /\ expiry_seen
  /\ \E cookies \in SessionChoices : entry_cookies' = cookies
  /\ client' = None
  /\ data' = None
  /\ locals' = EmptyLocals
  /\ log' = << >>
  /\ issued' = << >>
  /\ last' = NoCycleYet
  /\ expiry_seen' = FALSE
  /\ UNCHANGED <<sessVars, clientVars, parseVars, pc, cycle, faults>>
  /\ transports' = NoTransports

CoordInitState ==
  /\ client = None
  /\ data = None
  /\ pc = "idle"
  /\ cycle = 0
  /\ locals = EmptyLocals
  /\ log = << >>
  /\ issued = << >>
  /\ last = NoCycleYet
  /\ faults = 0
  /\ expiry_seen = FALSE
  /\ transports = NoTransports

\* ------------------------------------------------------------------------
\* Session specification: every cookie list up to MaxCookies cookies.
\* ------------------------------------------------------------------------
ExpiryShapes ==
  { <<NoExp, NoExp>>, <<NumExp(PAST), NoExp>>, <<NumExp(FUTURE), NoExp>>,
    <<NoExp, NumExp(PAST)>>, <<NumExp(0), NumExp(PAST)>>, <<NumExp(-1), NoExp>>,
    <<StrExp, NoExp>> }

NameDomains ==
  { <<"SAPISID", ".google.com">>, <<"SAPISID", "">>,
    <<"__Secure-3PAPISID", ".google.com">>, <<"__Secure-1PAPISID", ".google.com">>,
    <<"APISID", ".google.com">>, <<"SID", ".google.com">> }

Cookies == { Cookie(nd[1], nd[2], e[1], e[2]) : nd \in NameDomains, e \in ExpiryShapes }

RECURSIVE SeqsUpTo(_, _)
SeqsUpTo(S, n) ==
  IF n = 0 THEN { << >> }
  ELSE LET shorter == SeqsUpTo(S, n - 1)
       IN  shorter \cup { Append(s, x) : s \in {t \in shorter : Len(t) = n - 1}, x \in S }

SessInitState ==
  /\ sess_data = None
  /\ sess_auth = None
  /\ sess_secret = None

SessInit ==
  /\ sess_config \in SeqsUpTo(Cookies, MaxCookies)
  /\ SessInitState
  /\ entry_cookies = << >>
  /\ CoordInitState
  /\ ClientInitState
  /\ ParseInitState

SessLoad ==
  /\ sess_data = None /\ sess_auth = None /\ sess_secret = None
  /\ sess_config # << >>
  /\ sess_data' = async_load_session(sess_config)
  /\ UNCHANGED <<sess_config, sess_auth, sess_secret, coordVars, clientVars, parseVars>>

SessIsAuthenticated ==
  /\ sess_auth = None
  /\ sess_auth' = Some(is_authenticated(sess_data))
  /\ UNCHANGED <<sess_config, sess_data, sess_secret, coordVars, clientVars, parseVars>>

SessGetSapisid ==
  /\ sess_secret = None
  /\ sess_secret' = Some(_get_sapisid(sess_data))
  /\ UNCHANGED <<sess_config, sess_data, sess_auth, coordVars, clientVars, parseVars>>

SessNext == SessLoad \/ SessIsAuthenticated \/ SessGetSapisid

SessionSpec == SessInit /\ [][SessNext]_vars

\* ------------------------------------------------------------------------
\* Coordinator specification
\* ------------------------------------------------------------------------
Init ==
  /\ sess_config = << >>
  /\ SessInitState
  /\ entry_cookies \in SessionChoices
  /\ CoordInitState
  /\ ClientInitState
  /\ ParseInitState

Next ==
  \/ StartCycle
  \/ FetchRoster
  \/ GatherApps
  \/ GatherDevices
  \/ Publish
  \/ SupplyFreshSession

Spec == Init /\ [][Next]_vars

\* ------------------------------------------------------------------------
\* The coordinator until its entry is unloaded: poll cycles, then
\* async_unload_entry calls the coordinator's async_cleanup between cycles.
\* ------------------------------------------------------------------------
\* FamilyLinkDataUpdateCoordinator.async_cleanup with the client's
\* async_cleanup: the session of the client the coordinator refers to is
\* closed, and the reference dropped.
Coordinator_async_cleanup ==
  /\ pc = "idle"
  /\ pc' = "unloaded"
  /\ client' = None
  /\ transports' = [transports EXCEPT !.held = FALSE]
  /\ UNCHANGED <<sessVars, clientVars, parseVars, entry_cookies, data, cycle, locals, log,
                 issued, last, faults, expiry_seen>>

UnloadNext == Next \/ Coordinator_async_cleanup

UnloadSpec == Init /\ [][UnloadNext]_vars

\* ------------------------------------------------------------------------
\* API client: request signing and restriction updates  (client/api.py)
\* ------------------------------------------------------------------------
MaxClock == 2         \* last reading of the millisecond clock

FAMILYLINK_ORIGIN == "https://familylink.google.com"

\* Stand-in for hashlib.sha1(...).hexdigest(): a function of the hashed text
\* "{ts} {sapisid} {origin}" with so few values that digests collide.
DigestSpace == 2
SecretCode(sapisid) == IF sapisid = "SAPISID" THEN 0 ELSE 1
Sha1Hex(ts, sapisid, origin) == ToString(((ts \div 2) + SecretCode(sapisid)) % DigestSpace)

\* A signature that leaves the timestamp out of the returned text.
sapisidhash_DigestOnly(sapisid, origin, ts) ==
  <<"_", Sha1Hex(ts, sapisid, origin)>>

\* _sapisidhash, with the reading of time.time() * 1000 as ts:
\* "{ts}_{digest}"
_sapisidhash(sapisid, origin, ts) ==
  <<ToString(ts), "_", Sha1Hex(ts, sapisid, origin)>>

\* Headers built once, at clock reading 0, and used for every request.
auth_headers_Cached(session_data, now) ==
  IF ~_get_sapisid(session_data).ok THEN Fail(_get_sapisid(session_data).err)
  ELSE Ok([Authorization |-> <<"SAPISIDHASH ">>
                              \o _sapisidhash(_get_sapisid(session_data).value[1],
                                             FAMILYLINK_ORIGIN, 0),
           Origin |-> FAMILYLINK_ORIGIN,
           Cookie |-> [i \in DOMAIN session_data[1] |->
                         <<session_data[1][i].name, "=", session_data[1][i].value>>]])

\* FamilyLinkClient._auth_headers, called when the clock reads  now.
_auth_headers(session_data, now) ==
  IF ~_get_sapisid(session_data).ok THEN Fail(_get_sapisid(session_data).err)
  ELSE Ok([Authorization |-> <<"SAPISIDHASH ">>
                              \o _sapisidhash(_get_sapisid(session_data).value[1],
                                             FAMILYLINK_ORIGIN, now),
           Origin |-> FAMILYLINK_ORIGIN,
           Cookie |-> [i \in DOMAIN session_data[1] |->
                         <<session_data[1][i].name, "=", session_data[1][i].value>>]])

\* One request on the wire; built_at is the clock reading at which its
\* headers were built.
Request(method, endpoint, child_id, headers, payload, now) ==
  [method |-> method, endpoint |-> endpoint, child_id |-> child_id,
   headers |-> headers, payload |-> payload, built_at |-> now]

\* App titles and package names, as characters.
TitleFit == <<"F", "i", "t">>
PkgFit == <<"a", ".", "f">>
PkgNay == <<"a", ".", "n">>

\* appsandusage as the client operations see it: child1 has one app with a
\* title, one without; the other children have no app.
ClientAppsBody(child_id) ==
  [apps |-> IF child_id = "child1"
            THEN <<[packageName |-> Some(PkgFit), title |-> Some(TitleFit)],
                   [packageName |-> Some(PkgNay), title |-> None]>>
            ELSE << >>,
   appUsageSessions |-> << >>]

\* The title -> package cache built from a response: lower-case title of
\* every app that has both a title and a package; a later app overrides.
AppCacheFrom(body) ==
  LET usable == {i \in DOMAIN body.apps :
                   /\ body.apps[i].title # None /\ body.apps[i].title[1] # << >>
                   /\ body.apps[i].packageName # None /\ body.apps[i].packageName[1] # << >>}
      keys == {Lower(body.apps[i].title[1]) : i \in usable}
  IN  [k \in keys |->
         LET last_i == CHOOSE i \in usable :
                         /\ Lower(body.apps[i].title[1]) = k
                         /\ \A j \in usable : Lower(body.apps[j].title[1]) = k => j <= i
         IN  body.apps[last_i].packageName[1]]

\* What a client operation leaves behind: its result, the name cache and
\* the requests it sent.
Done(result, cache, reqs) == [result |-> result, cache |-> cache, reqs |-> reqs]

\* The name cache with the entry of the child joined with the map of the
\* response instead of replaced by it.
StoreApps_Merged(cache, child_id, body) ==
  [c \in DOMAIN cache \cup {child_id} |->
     IF c # child_id THEN cache[c]
     ELSE IF c \in DOMAIN cache
          THEN [k \in DOMAIN cache[c] \cup DOMAIN AppCacheFrom(body) |->
                  IF k \in DOMAIN AppCacheFrom(body) THEN AppCacheFrom(body)[k]
                  ELSE cache[c][k]]
          ELSE AppCacheFrom(body)]

\* self._app_cache[child_id] = cache
StoreApps(cache, child_id, body) ==
  [c \in DOMAIN cache \cup {child_id} |->
     IF c = child_id THEN AppCacheFrom(body) ELSE cache[c]]

\* async_get_apps_and_usage with its effect on the name cache.
FetchApps(session_data, cache, child_id, resp, now) ==
  LET res == async_get_apps_and_usage(session_data, resp, ClientAppsBody(child_id))
      reqs == IF SendsRequest(session_data)
              THEN <<Request("GET", "appsandusage", child_id,
                             _auth_headers(session_data, now).value[1], JNull, now)>>
              ELSE << >>
  IN  IF ~res.ok THEN Done(res, cache, reqs)
      ELSE Done(res, StoreApps(cache, child_id, res.value[1]), reqs)

HasDot(name) == \E i \in DOMAIN name : name[i] = "."

AppNotFound == Err("DeviceControlError", <<"App not found on child's device">>)

\* A name resolution that never fetches.
resolve_package_NoFetch(session_data, cache, child_id, app_name, resp, now) ==
  IF HasDot(app_name) THEN Done(Ok(app_name), cache, << >>)
  ELSE IF child_id \in DOMAIN cache /\ Lower(app_name) \in DOMAIN cache[child_id]
       THEN Done(Ok(cache[child_id][Lower(app_name)]), cache, << >>)
       ELSE Done(Fail(AppNotFound), cache, << >>)

\* FamilyLinkClient._resolve_package
_resolve_package(session_data, cache, child_id, app_name, resp, now) ==
  IF HasDot(app_name) THEN Done(Ok(app_name), cache, << >>)
  ELSE LET fetched == IF child_id \notin DOMAIN cache
                      THEN FetchApps(session_data, cache, child_id, resp, now)
                      ELSE Done(Ok(TRUE), cache, << >>)
       IN  IF ~fetched.result.ok THEN fetched
           ELSE IF Lower(app_name) \in DOMAIN fetched.cache[child_id]
                THEN Done(Ok(fetched.cache[child_id][Lower(app_name)]),
                          fetched.cache, fetched.reqs)
                ELSE Done(Fail(AppNotFound), fetched.cache, fetched.reqs)

\* sum([block, always_allow, time_limit_minutes is not None]) counts all three.
TooManyModes_OnlyAllThree(block, always_allow, time_limit_minutes) ==
  block /\ always_allow /\ time_limit_minutes # None

\* sum([block, always_allow, time_limit_minutes is not None]) > 1
TooManyModes(block, always_allow, time_limit_minutes) ==
  \/ block /\ always_allow
  \/ block /\ time_limit_minutes # None
  \/ always_allow /\ time_limit_minutes # None

\* The restriction encodings of apps:updateRestrictions.
BlockEncoding(pkg) == JList(<<JList(<<JStr(pkg)>>), JList(<<JInt(1)>>)>>)
AlwaysAllowEncoding(pkg) ==
  JList(<<JList(<<JStr(pkg)>>), JNull, JNull, JList(<<JInt(1)>>)>>)
SetLimitEncoding(pkg, minutes) ==
  JList(<<JList(<<JStr(pkg)>>), JNull, JList(<<JInt(minutes), JInt(1)>>)>>)
ClearLimitEncoding(pkg) == JList(<<JList(<<JStr(pkg)>>)>>)

\* The except clauses around a POST.
WriteFailure(resp, what) ==
  IF resp.status = 0
  THEN Err("DeviceControlError", <<"Failed to ", what, ": ", resp.text>>)
  ELSE Err("DeviceControlError", <<"HTTP ", ToString(resp.status), " while ", what>>)

\* The POST of a payload to apps:updateRestrictions, headers built at  now.
PostRestrictions(session_data, cache, child_id, payload, resp, now, earlier, what) ==
  IF ~_auth_headers(session_data, now).ok
  THEN Done(Fail(_auth_headers(session_data, now).err), cache, earlier)
  ELSE LET req == Request("POST", "apps:updateRestrictions", child_id,
                          _auth_headers(session_data, now).value[1], payload, now)
       IN  IF ~IsOkAnswer(resp)
           THEN Done(Fail(WriteFailure(resp, what)), cache, Append(earlier, req))
           ELSE Done(Ok(TRUE), cache, Append(earlier, req))

\* FamilyLinkClient.async_update_app_restriction.  resp1 / now1 belong to the
\* apps-and-usage fetch of the name resolution, resp2 / now2 to the POST.
async_update_app_restriction(session_data, cache, child_id, app_name, block, always_allow, time_limit_minutes, resp1, now1, resp2, now2) ==
  IF TooManyModes(block, always_allow, time_limit_minutes)
  THEN Done(Fail(Err("ValueError", <<"Specify exactly one of: block, always_allow, time_limit_minutes">>)),
            cache, << >>)
  ELSE LET resolved == _resolve_package(session_data, cache, child_id, app_name, resp1, now1)
       IN  IF ~resolved.result.ok THEN resolved
           ELSE LET pkg == resolved.result.value[1]
                    restriction ==
                      IF block THEN BlockEncoding(pkg)
                      ELSE IF always_allow THEN AlwaysAllowEncoding(pkg)
                      ELSE IF time_limit_minutes # None
                           THEN SetLimitEncoding(pkg, time_limit_minutes[1])
                      ELSE ClearLimitEncoding(pkg)
                IN  PostRestrictions(session_data, resolved.cache, child_id,
                                     <<child_id, <<restriction>>>>, resp2, now2,
                                     resolved.reqs, "updating restriction")

\* A bulk update that encodes a set-limit entry whatever the minutes.
BulkEntries_AlwaysSet(packages, minutes) ==
  [i \in DOMAIN packages |-> SetLimitEncoding(packages[i], minutes)]

\* The restrictions list of async_bulk_update_restrictions.
BulkEntries(packages, minutes) ==
  [i \in DOMAIN packages |->
     IF minutes > 0 THEN SetLimitEncoding(packages[i], minutes)
     ELSE ClearLimitEncoding(packages[i])]

\* FamilyLinkClient.async_bulk_update_restrictions
async_bulk_update_restrictions(session_data, cache, child_id, packages, minutes, resp, now) ==
  IF packages = << >> THEN Done(Ok(TRUE), cache, << >>)
  ELSE PostRestrictions(session_data, cache, child_id,
                        <<child_id, BulkEntries(packages, minutes)>>, resp, now,
                        << >>, "bulk-updating restrictions")

\* ------------------------------------------------------------------------
\* Client specification: one authenticated client, its operations called
\* one after the other while the clock advances.
\* ------------------------------------------------------------------------
ClientSessions ==
  { <<Cookie("SAPISID", ".google.com", NoExp, NoExp), Cookie("SID", ".google.com", NoExp, NoExp)>>,
    <<Cookie("APISID", ".google.com", NoExp, NoExp)>>,
    <<Cookie("SID", ".google.com", NoExp, NoExp)>> }

ClientChildren == {"child1", "child2"}
ClientAnswers == {Http(200), Http(500)}
AppNames == {TitleFit, <<"F", "I", "T">>, <<"n", "a", "y">>, PkgNay}
PackageLists == {<< >>, <<PkgFit>>, <<PkgNay, PkgFit>>}
MinuteChoices == {0 - 1, 0, 30}

ClientInit ==
  /\ sess_config \in ClientSessions
  /\ sess_data = async_load_session(sess_config)
  /\ sess_auth = None
  /\ sess_secret = None
  /\ entry_cookies = << >>
  /\ CoordInitState
  /\ ClientInitState
  /\ ParseInitState

\* The state after a call of operation  op  with  args  that left  done.
Called(op, args, done, now) ==
  /\ outcome' = [n |-> 1, op |-> op, args |-> args, result |-> done.result,
                 cache_before |-> app_cache, clock_before |-> clock]
  /\ app_cache' = done.cache
  /\ requests' = done.reqs
  /\ clock' = now
  /\ UNCHANGED <<sessVars, coordVars, parseVars>>

ClientTick ==
  /\ clock < MaxClock
  /\ clock' = clock + 1
  /\ UNCHANGED <<sessVars, coordVars, parseVars, app_cache, requests, outcome>>

CallGetApps ==
  \E child_id \in ClientChildren, resp \in ClientAnswers :
    Called("get_apps", <<child_id>>,
           FetchApps(sess_data, app_cache, child_id, resp, clock), clock)

CallUpdateRestriction ==
  \E child_id \in ClientChildren, app_name \in AppNames,
     block \in BOOLEAN, always_allow \in BOOLEAN, minutes \in {None, Some(30)},
     resp1 \in ClientAnswers, resp2 \in ClientAnswers,
     now2 \in {t \in {clock, clock + 1} : t <= MaxClock} :
    Called("update", <<child_id, app_name, block, always_allow, minutes>>,
           async_update_app_restriction(sess_data, app_cache, child_id, app_name, block,
                                        always_allow, minutes, resp1, clock, resp2, now2),
           now2)

CallBulkUpdate ==
  \E child_id \in ClientChildren, packages \in PackageLists, minutes \in MinuteChoices,
     resp \in ClientAnswers :
    Called("bulk", <<child_id, packages, minutes>>,
           async_bulk_update_restrictions(sess_data, app_cache, child_id, packages,
                                          minutes, resp, clock),
           clock)

ClientNext == ClientTick \/ CallGetApps \/ CallUpdateRestriction \/ CallBulkUpdate

ClientSpec == ClientInit /\ [][ClientNext]_vars

\* ------------------------------------------------------------------------
\* Specification of overlapping async_get_apps_and_usage calls of one client
\* (those a poll cycle gathers and those of on-demand operations).  A call
\* is suspended at its one await, the GET;  requests  holds the requests
\* not yet answered.  When the answer of one of them arrives, the rest of
\* that call runs without another await: it builds the map of the response
\* and stores it.
\* ------------------------------------------------------------------------
MaxInFlight == 2      \* calls suspended at the same time

TitleNay == <<"N", "a", "y">>

CacheBodies ==
  { [apps |-> <<[packageName |-> Some(PkgFit), title |-> Some(TitleFit)]>>,
     appUsageSessions |-> << >>],
    [apps |-> <<[packageName |-> Some(PkgNay), title |-> Some(TitleNay)]>>,
     appUsageSessions |-> << >>],
    [apps |-> << >>, appUsageSessions |-> << >>] }

CacheInit ==
  /\ sess_config \in {s \in ClientSessions : SendsRequest(async_load_session(s))}
  /\ sess_data = async_load_session(sess_config)
  /\ sess_auth = None
  /\ sess_secret = None
  /\ entry_cookies = << >>
  /\ CoordInitState
  /\ ClientInitState
  /\ ParseInitState

\* A call up to its await: the headers are built and the GET is sent.
BeginFetch ==
  /\ Len(requests) < MaxInFlight
  /\ \E child_id \in ClientChildren :
       requests' = Append(requests,
                          Request("GET", "appsandusage", child_id,
                                  _auth_headers(sess_data, clock).value[1], JNull, clock))
  /\ UNCHANGED <<sessVars, coordVars, parseVars, clock, app_cache, outcome>>

\* The answer of one of the suspended calls arrives, in any order, and the
\* call runs to its end.
CompleteFetch ==
  /\ requests # << >>
  /\ \E k \in DOMAIN requests, resp \in ClientAnswers, body \in CacheBodies :
       LET child_id == requests[k].child_id
           res == async_get_apps_and_usage(sess_data, resp, body)
       IN  /\ requests' = SubSeq(requests, 1, k - 1) \o SubSeq(requests, k + 1, Len(requests))
           /\ outcome' = [n |-> 1, op |-> "get_apps", args |-> <<child_id, body>>,
                          result |-> res, cache_before |-> app_cache,
                          clock_before |-> clock]
           /\ app_cache' = IF res.ok THEN StoreApps(app_cache, child_id, body) ELSE app_cache
  /\ UNCHANGED <<sessVars, coordVars, parseVars, clock>>

CacheNext == BeginFetch \/ CompleteFetch

CacheSpec == CacheInit /\ [][CacheNext]_vars

\* ------------------------------------------------------------------------
\* Device and schedule writes of the client  (client/api.py)
\* ------------------------------------------------------------------------
OVERRIDE_ACTION_BONUS == 2
OVERRIDE_ACTION_CLEAR == 3
\* const.py does not define this name; its value is the "action=8" of
\* async_set_today_limit's documented body.
OVERRIDE_ACTION_TODAY_LIMIT == 8

\* A POST whose headers are built, at  now, before the request is sent.
PostTo(endpoint, session_data, cache, child_id, payload, resp, now, what) ==
  IF ~_auth_headers(session_data, now).ok
  THEN Done(Fail(_auth_headers(session_data, now).err), cache, << >>)
  ELSE LET req == Request("POST", endpoint, child_id,
                          _auth_headers(session_data, now).value[1], payload, now)
       IN  IF ~IsOkAnswer(resp)
           THEN Done(Fail(WriteFailure(resp, what)), cache, <<req>>)
           ELSE Done(Ok(TRUE), cache, <<req>>)

\* [None, None, [override_entry]]
BonusPayload(device_id, bonus_minutes) ==
  JList(<<JNull, JNull,
          JList(<<IF bonus_minutes > 0
                  THEN JList(<<JNull, JNull, JInt(OVERRIDE_ACTION_BONUS), device_id, JNull,
                               JInt(bonus_minutes)>>)
                  ELSE JList(<<JNull, JNull, JInt(OVERRIDE_ACTION_CLEAR), device_id>>)>>)>>)

\* FamilyLinkClient.async_set_device_bonus_time
async_set_device_bonus_time(session_data, cache, child_id, device_id, bonus_minutes, resp, now) ==
  PostTo("timeLimitOverrides:batchCreate", session_data, cache, child_id,
         BonusPayload(device_id, bonus_minutes), resp, now, "setting device bonus time")

\* [None, child_id, [[override_entry]], [1]]
TodayLimitPayload(child_id, device_id, entry_id, quota_mins) ==
  JList(<<JNull, JText(child_id),
          JList(<<JList(<<JList(<<JNull, JNull, JInt(OVERRIDE_ACTION_TODAY_LIMIT), device_id,
                                  JNull, JNull, JNull, JNull, JNull, JNull, JNull,
                                  JList(<<JInt(2), JInt(quota_mins), entry_id>>)>>)>>)>>),
          JList(<<JInt(1)>>)>>)

\* FamilyLinkClient.async_set_today_limit
async_set_today_limit(session_data, cache, child_id, device_id, entry_id, quota_mins, resp, now) ==
  PostTo("timeLimitOverrides:batchCreate", session_data, cache, child_id,
         TodayLimitPayload(child_id, device_id, entry_id, quota_mins), resp, now,
         "setting today's limit")

\* [None, child_id, [None, [[2, None, None, [[entry_id, quota_mins]]]]], None, [1]]
DailyLimitPayload(child_id, entry_id, quota_mins) ==
  JList(<<JNull, JText(child_id),
          JList(<<JNull,
                  JList(<<JList(<<JInt(2), JNull, JNull,
                                  JList(<<JList(<<entry_id, JInt(quota_mins)>>)>>)>>)>>)>>),
          JNull, JList(<<JInt(1)>>)>>)

\* FamilyLinkClient.async_set_daily_limit
async_set_daily_limit(session_data, cache, child_id, entry_id, quota_mins, resp, now) ==
  PostTo("timeLimit:update", session_data, cache, child_id,
         DailyLimitPayload(child_id, entry_id, quota_mins), resp, now, "setting daily limit")

\* ------------------------------------------------------------------------
\* On-demand operations of the coordinator  (coordinator.py)
\*
\* Each takes the snapshot  d, the client  cl  and the entry's cookies and
\* gives what it leaves: the caller's result, the client, the snapshot, the
\* number of re-authentication flows it started and the requests it sent.
\* ------------------------------------------------------------------------
Left(result, cl, d, reqs) ==
  [result |-> result, client |-> cl, data |-> d, reauth |-> 0, reqs |-> reqs]

\* if self.client is None: await self._async_setup_client()
EnsureClient(cl, cookies) ==
  IF cl # None THEN [ok |-> TRUE, client |-> cl, err |-> NoErr]
  ELSE LET auth == async_authenticate(async_load_session(cookies))
       IN  IF auth.ok
           THEN [ok |-> TRUE, client |-> Some([session_data |-> async_load_session(cookies)]),
                 err |-> NoErr]
           ELSE [ok |-> FALSE, client |-> None, err |-> auth.err]

WireRequest(session_data, endpoint, child_id) ==
  IF SendsRequest(session_data)
  THEN <<Request("GET", endpoint, child_id, _auth_headers(session_data, 0).value[1], JNull, 0)>>
  ELSE << >>

\* A reader of members that always asks the API.
Coordinator_get_members_NoCache(d, cl, cookies, resp, k) ==
  LET setup == EnsureClient(cl, cookies)
      sd == setup.client[1].session_data
  IN  IF ~setup.ok THEN Left(Fail(setup.err), setup.client, d, << >>)
      ELSE Left(async_get_members(sd, resp, MembersBody(k)), setup.client, d,
                WireRequest(sd, "members", ""))

\* FamilyLinkDataUpdateCoordinator.async_get_members
Coordinator_async_get_members(d, cl, cookies, resp, k) ==
  IF d # None THEN Left(Ok(d[1].children), cl, d, << >>)
  ELSE LET setup == EnsureClient(cl, cookies)
           sd == setup.client[1].session_data
       IN  IF ~setup.ok THEN Left(Fail(setup.err), setup.client, d, << >>)
           ELSE Left(async_get_members(sd, resp, MembersBody(k)), setup.client, d,
                     WireRequest(sd, "members", ""))

\* The fetch of a child's apps-and-usage by an accessor, parsed by  Parse.
FetchAndParse(d, cl, cookies, child_id, resp, Parse(_)) ==
  LET setup == EnsureClient(cl, cookies)
      sd == setup.client[1].session_data
      raw == async_get_apps_and_usage(sd, resp, AppsBody(child_id, resp.variant))
  IN  IF ~setup.ok THEN Left(Fail(setup.err), setup.client, d, << >>)
      ELSE Left(IF raw.ok THEN Parse(raw.value[1]) ELSE raw, setup.client, d,
                WireRequest(sd, "appsandusage", child_id))

\* FamilyLinkDataUpdateCoordinator.async_get_app_usage
Coordinator_async_get_app_usage(d, cl, cookies, child_id, resp) ==
  IF d # None /\ child_id \in DOMAIN d[1].usage
  THEN Left(Ok(d[1].usage[child_id]), cl, d, << >>)
  ELSE FetchAndParse(d, cl, cookies, child_id, resp, parse_usage)

\* FamilyLinkDataUpdateCoordinator.async_get_app_restrictions
Coordinator_async_get_app_restrictions(d, cl, cookies, child_id, resp) ==
  IF d # None /\ child_id \in DOMAIN d[1].restrictions
  THEN Left(Ok(d[1].restrictions[child_id]), cl, d, << >>)
  ELSE FetchAndParse(d, cl, cookies, child_id, resp, LAMBDA raw : Ok(parse_restrictions(raw)))

\* A write that handles its failure as a poll cycle does: the client is
\* dropped, re-authentication starts and the caller sees a success.
Surfaced_Absorbed(done, cl, d) ==
  IF done.result.ok THEN Left(done.result, cl, d, done.reqs)
  ELSE [result |-> Ok(TRUE), client |-> None, data |-> d, reauth |-> 1, reqs |-> done.reqs]

\* What a client operation left, as the coordinator's caller gets it.
Surfaced(done, cl, d) ==
  [result |-> done.result, client |-> cl, data |-> d, reauth |-> 0, reqs |-> done.reqs]

\* A write after which the snapshot is dropped.
UpdateRestriction_Invalidates(d, cl, cookies, cache, child_id, app_name, block, always_allow, minutes, resp1, resp2) ==
  LET setup == EnsureClient(cl, cookies)
  IN  IF ~setup.ok THEN Left(Fail(setup.err), setup.client, d, << >>)
      ELSE Surfaced(async_update_app_restriction(setup.client[1].session_data, cache, child_id,
                                                 app_name, block, always_allow, minutes,
                                                 resp1, 0, resp2, 0),
                    setup.client, None)

\* The body shared by async_set_app_limit, async_remove_app_limit,
\* async_block_app and async_allow_app.
UpdateRestriction(d, cl, cookies, cache, child_id, app_name, block, always_allow, minutes, resp1, resp2) ==
  LET setup == EnsureClient(cl, cookies)
  IN  IF ~setup.ok THEN Left(Fail(setup.err), setup.client, d, << >>)
      ELSE Surfaced(async_update_app_restriction(setup.client[1].session_data, cache, child_id,
                                                 app_name, block, always_allow, minutes,
                                                 resp1, 0, resp2, 0),
                    setup.client, d)

\* The modes in which async_set_app_limit(child, app, minutes),
\* async_remove_app_limit, async_block_app and async_allow_app call
\* client.async_update_app_restriction.
AppWriteModes(minutes) ==
  [set_app_limit |-> [block |-> FALSE, always_allow |-> FALSE, minutes |-> Some(minutes)],
   remove_app_limit |-> [block |-> FALSE, always_allow |-> FALSE, minutes |-> None],
   block_app |-> [block |-> TRUE, always_allow |-> FALSE, minutes |-> None],
   allow_app |-> [block |-> FALSE, always_allow |-> TRUE, minutes |-> None]]

\* [s["package"] for s in ...get("supervisable", []) if s.get("package")]
PackagesOf(restrictions) ==
  IF "supervisable" \notin DOMAIN restrictions THEN << >>
  ELSE LET usable == SelectSeq(restrictions.supervisable, LAMBDA s : s.package # "")
       IN  [i \in DOMAIN usable |-> usable[i].package]

\* FamilyLinkDataUpdateCoordinator.async_set_bulk_limit
Coordinator_async_set_bulk_limit(d, cl, cookies, cache, child_id, minutes, resp1, resp2) ==
  LET setup == EnsureClient(cl, cookies)
      sd == setup.client[1].session_data
      cached == IF d # None /\ child_id \in DOMAIN d[1].restrictions
                THEN PackagesOf(d[1].restrictions[child_id]) ELSE << >>
      raw == async_get_apps_and_usage(sd, resp1, AppsBody(child_id, resp1.variant))
      fetched == WireRequest(sd, "appsandusage", child_id)
  IN  IF ~setup.ok THEN Left(Fail(setup.err), setup.client, d, << >>)
      ELSE IF cached # << >>
      THEN Surfaced(async_bulk_update_restrictions(sd, cache, child_id, cached, minutes,
                                                   resp2, 0),
                    setup.client, d)
      ELSE IF ~raw.ok THEN Left(raw, setup.client, d, fetched)
      ELSE LET done == async_bulk_update_restrictions(
                         sd, cache, child_id, PackagesOf(parse_restrictions(raw.value[1])),
                         minutes, resp2, 0)
           IN  Left(done.result, setup.client, d, fetched \o done.reqs)

\* FamilyLinkDataUpdateCoordinator.async_set_device_bonus_time
Coordinator_async_set_device_bonus_time(d, cl, cookies, cache, child_id, device_id, bonus_minutes, resp) ==
  LET setup == EnsureClient(cl, cookies)
  IN  IF ~setup.ok THEN Left(Fail(setup.err), setup.client, d, << >>)
      ELSE Surfaced(async_set_device_bonus_time(setup.client[1].session_data, cache, child_id,
                                                device_id, bonus_minutes, resp, 0),
                    setup.client, d)

NoDailyEntry == Err("ValueError", <<"No daily limit entry found">>)

\* An entry id made up from the day number when the snapshot has none.
EntryIdFor_Derived(d, child_id, day_num) ==
  IF d # None /\ child_id \in DOMAIN d[1].daily_limits
     /\ JInt(day_num) \in DOMAIN d[1].daily_limits[child_id]
  THEN Ok(d[1].daily_limits[child_id][JInt(day_num)].entry_id)
  ELSE Ok(JText("CAEQ"))

\* self.data["daily_limits"][child_id][day_num]["entry_id"], with the
\* KeyError or TypeError of the lookup turned into ValueError.
EntryIdFor(d, child_id, day_num) ==
  IF d # None /\ child_id \in DOMAIN d[1].daily_limits
     /\ JInt(day_num) \in DOMAIN d[1].daily_limits[child_id]
  THEN Ok(d[1].daily_limits[child_id][JInt(day_num)].entry_id)
  ELSE Fail(NoDailyEntry)

\* FamilyLinkDataUpdateCoordinator.async_set_daily_limit
Coordinator_async_set_daily_limit(d, cl, cookies, cache, child_id, day_num, quota_mins, resp) ==
  LET setup == EnsureClient(cl, cookies)
      entry_id == EntryIdFor(d, child_id, day_num)
  IN  IF ~setup.ok THEN Left(Fail(setup.err), setup.client, d, << >>)
      ELSE IF ~entry_id.ok THEN Left(entry_id, setup.client, d, << >>)
      ELSE Surfaced(async_set_daily_limit(setup.client[1].session_data, cache, child_id,
                                          entry_id.value[1], quota_mins, resp, 0),
                    setup.client, d)

\* FamilyLinkDataUpdateCoordinator.async_set_today_limit
Coordinator_async_set_today_limit(d, cl, cookies, cache, child_id, device_id, day_num, quota_mins, resp) ==
  LET setup == EnsureClient(cl, cookies)
      entry_id == EntryIdFor(d, child_id, day_num)
  IN  IF ~setup.ok THEN Left(Fail(setup.err), setup.client, d, << >>)
      ELSE IF ~entry_id.ok THEN Left(entry_id, setup.client, d, << >>)
      ELSE Surfaced(async_set_today_limit(setup.client[1].session_data, cache, child_id,
                                          device_id, entry_id.value[1], quota_mins, resp, 0),
                    setup.client, d)

\* ------------------------------------------------------------------------
\* On-demand specification: the poll cycles of Spec, and between any two of
\* their steps one on-demand operation, whose caller then takes the result.
\* ------------------------------------------------------------------------
DemandChildren == {"child1", "child2"}
AppWriteCalls ==
  { <<"set_app_limit", TitleFit, Http(401)>>,
    <<"remove_app_limit", <<"n", "a", "y">>, Http(200)>>,
    <<"block_app", TitleFit, Transport("Timeout")>>,
    <<"allow_app", TitleFit, Http(200)>> }
DailyCalls == { <<1, Http(401)>>, <<3, Http(200)>> }

\* The positions of the poll cycle at which on-demand operations arrive:
\* between cycles and, with a cycle in flight, ahead of its first gather.
CallPoints == {"idle", "apps"}

\* No on-demand operation is under way and one may arrive.
Callable == outcome = NoCall /\ pc \in CallPoints

\* The operation entered a method of the client: it sent a request, or it
\* failed where the request headers are built, which every method does
\* after _get_session.
EntersClient(done) ==
  \/ done.reqs # << >>
  \/ done.client # None /\ ~done.result.ok /\ done.result.err.kind = "AuthenticationError"

\* The state after an on-demand operation that left  left.  The outcome
\* keeps the call's arguments and the answers the network gave: get to a
\* fetch the operation made, post to its write.
Demanded(op, args, get, post, left) ==
  \E done \in {left} :
  /\ outcome' = [n |-> 1, op |-> op, args |-> <<args, <<get, post>>>>, result |-> done.result,
                 cache_before |-> << >>, clock_before |-> 0]
  /\ requests' = done.reqs
  /\ client' = done.client
  /\ data' = done.data
  /\ expiry_seen' = (expiry_seen \/ done.reauth > 0)
  /\ transports' = TransportsAfter(done.client, EntersClient(done))
  /\ UNCHANGED <<sessVars, parseVars, clock, app_cache, entry_cookies, pc, cycle, locals,
                 log, issued, last, faults>>

DemandGetMembers ==
  /\ Callable
  /\ Demanded("get_members", << >>, Http(200), Http(200),
              Coordinator_async_get_members(data, client, entry_cookies, Http(200), 1))

DemandGetAppUsage ==
  /\ Callable
  /\ \E child_id \in DemandChildren :
       Demanded("get_app_usage", <<child_id>>, Http(200), Http(200),
                Coordinator_async_get_app_usage(data, client, entry_cookies, child_id,
                                                Http(200)))

DemandGetAppRestrictions ==
  /\ Callable
  /\ Demanded("get_app_restrictions", <<"child1">>, Http(200), Http(200),
              Coordinator_async_get_app_restrictions(data, client, entry_cookies, "child1",
                                                     Http(200)))

\* async_set_app_limit, async_remove_app_limit, async_block_app, async_allow_app
DemandAppWrite ==
  /\ Callable
  /\ \E call \in AppWriteCalls :
       Demanded(call[1], <<"child1", call[2]>>, Http(200), call[3],
                UpdateRestriction(data, client, entry_cookies, << >>, "child1", call[2],
                                  AppWriteModes(30)[call[1]].block,
                                  AppWriteModes(30)[call[1]].always_allow,
                                  AppWriteModes(30)[call[1]].minutes, Http(200), call[3]))

DemandSetBulkLimit ==
  /\ Callable
  /\ Demanded("set_bulk_limit", <<"child1", 30>>, Http(500), Http(200),
              Coordinator_async_set_bulk_limit(data, client, entry_cookies, << >>, "child1",
                                               30, Http(500), Http(200)))

DemandSetBonusTime ==
  /\ Callable
  /\ Demanded("set_device_bonus_time", <<"child1", DeviceIdOf("child1"), 15>>,
              Transport("Timeout"), Transport("Timeout"),
              Coordinator_async_set_device_bonus_time(data, client, entry_cookies, << >>,
                                                      "child1", DeviceIdOf("child1"), 15,
                                                      Transport("Timeout")))

DemandSetDailyLimit ==
  /\ Callable
  /\ \E call \in DailyCalls :
       Demanded("set_daily_limit", <<"child1", call[1], 45>>, call[2], call[2],
                Coordinator_async_set_daily_limit(data, client, entry_cookies, << >>,
                                                  "child1", call[1], 45, call[2]))

DemandSetTodayLimit ==
  /\ Callable
  /\ Demanded("set_today_limit", <<"child1", DeviceIdOf("child1"), 1, 45>>,
              Http(200), Http(200),
              Coordinator_async_set_today_limit(data, client, entry_cookies, << >>, "child1",
                                                DeviceIdOf("child1"), 1, 45, Http(200)))

\* The caller has taken the result of the operation.
DemandReturn ==
  /\ outcome # NoCall
  /\ outcome' = NoCall
  /\ requests' = << >>
  /\ UNCHANGED <<sessVars, coordVars, parseVars, clock, app_cache>>

PollStep == outcome = NoCall /\ Next

DemandNext ==
  \/ PollStep
  \/ DemandGetMembers
  \/ DemandGetAppUsage
  \/ DemandGetAppRestrictions
  \/ DemandAppWrite
  \/ DemandSetBulkLimit
  \/ DemandSetBonusTime
  \/ DemandSetDailyLimit
  \/ DemandSetTodayLimit
  \/ DemandReturn

DemandSpec == Init /\ [][DemandNext]_vars

\* ------------------------------------------------------------------------
\* Properties of the client operations
\* ------------------------------------------------------------------------
Signature(r) == SubSeq(r.headers.Authorization, 2, Len(r.headers.Authorization))

\* C12: the request signature is a function of secret, origin and
\* timestamp: two requests of one client signed at the same millisecond
\* carry the same text "{ts}_{digest}", two requests signed at different
\* milliseconds carry different texts.
C12_SignatureDeterministic ==
  \A i, j \in DOMAIN requests :
    /\ Signature(requests[i]) =
         <<ToString(requests[i].built_at), "_",
           Sha1Hex(requests[i].built_at, _get_sapisid(sess_data).value[1], FAMILYLINK_ORIGIN)>>
    /\ requests[i].built_at = requests[j].built_at
         => Signature(requests[i]) = Signature(requests[j])
    /\ requests[i].built_at # requests[j].built_at
         => Signature(requests[i]) # Signature(requests[j])

\* Two requests signed at different milliseconds whose digests collide.
C12_Witness ==
  /\ Len(requests) = 2
  /\ requests[1].built_at # requests[2].built_at
  /\ Signature(requests[1])[3] = Signature(requests[2])[3]

ModesSet(args) ==
  (IF args[3] THEN 1 ELSE 0) + (IF args[4] THEN 1 ELSE 0) + (IF args[5] # None THEN 1 ELSE 0)

\* C14: async_update_app_restriction called with two or more of block,
\* always_allow and time_limit_minutes fails validation before any network
\* call: no request is sent and the name cache is unchanged.
C14_ValidationBeforeNetwork ==
  (outcome.op = "update" /\ ModesSet(outcome.args) >= 2)
    => /\ ~outcome.result.ok
       /\ outcome.result.err.kind = "ValueError"
       /\ requests = << >>
       /\ app_cache = outcome.cache_before

\* Two modes at once for an app title that is not cached yet, on a client
\* that can sign requests.
C14_Witness ==
  /\ outcome.op = "update"
  /\ ModesSet(outcome.args) = 2
  /\ outcome.args[2] = TitleFit
  /\ outcome.args[1] \notin DOMAIN outcome.cache_before
  /\ SendsRequest(sess_data)
  /\ ~outcome.result.ok

\* The entries of the one request a bulk update sent are, in the order of
\* the packages, the clear-limit encoding when minutes = 0 and the set-limit
\* encoding when minutes > 0.
BulkRequestAsGiven ==
  /\ Len(requests) = 1
  /\ requests[1].method = "POST"
  /\ requests[1].payload[1] = outcome.args[1]
  /\ Len(requests[1].payload[2]) = Len(outcome.args[2])
  /\ \A i \in DOMAIN outcome.args[2] :
       requests[1].payload[2][i] =
         IF outcome.args[3] = 0
         THEN JList(<<JList(<<JStr(outcome.args[2][i])>>)>>)
         ELSE JList(<<JList(<<JStr(outcome.args[2][i])>>), JNull,
                      JList(<<JInt(outcome.args[3]), JInt(1)>>)>>)

\* C15 as stated: every bulk update with minutes >= 0, whatever the package
\* list, sends one request with one entry per package.
C15_BulkEncodingAnyList ==
  (outcome.op = "bulk" /\ outcome.args[3] >= 0 /\ SendsRequest(sess_data))
    => BulkRequestAsGiven

\* C15: a bulk update of a non-empty package list with minutes = 0 sends one
\* request whose entries are the clear-limit encoding [[pkg]] of every
\* package, with minutes > 0 the set-limit encoding [[pkg], null, [minutes, 1]]
\* of every package, in the order given; an empty list sends no request.
C15_BulkEncoding ==
  (outcome.op = "bulk" /\ outcome.args[3] >= 0 /\ SendsRequest(sess_data))
    => IF outcome.args[2] = << >>
       THEN requests = << >> /\ outcome.result.ok
       ELSE BulkRequestAsGiven

C15_Witness ==
  /\ outcome.op = "bulk"
  /\ outcome.args[3] = 0
  /\ Len(outcome.args[2]) = 2
  /\ Len(requests) = 1
  /\ outcome.result.ok

IsFetch(r, child_id) ==
  r.method = "GET" /\ r.endpoint = "appsandusage" /\ r.child_id = child_id
IsUpdate(r) == r.method = "POST" /\ r.endpoint = "apps:updateRestrictions"

PerChildOps == {"apps", "limits", "names", "schedule"}

\* A poll cycle has run to its end and no other has started.
CycleEnded == pc = "idle" /\ last.result \in {"snapshot", "UpdateFailed", "raised"}

\* The roster of the cycle was fetched and every per-child fetch has an outcome.
AllFetched ==
  \A c \in Ids(locals.children) : \A op \in PerChildOps : <<op, c>> \in DOMAIN log

FailedChildFetches == {k \in DOMAIN log : k[1] \in PerChildOps /\ ~log[k].ok}

WellFormedAnswers == \A k \in DOMAIN log : log[k].resp.variant = "normal"

\* What the remote service holds for child c, parsed.
FullUsage(c) == parse_usage(AppsBody(c, "normal")).value[1]
FullRestrictions(c) == parse_restrictions(AppsBody(c, "normal"))
FullDevices(c) == parse_applied_time_limits(LimitsBody(c))
FullSchedule(c) ==
  LET e == ScheduleBody(c)[1].v[2].v[2].v[1].v[3].v
  IN  [d \in {e[1].v[2], e[2].v[2]} |->
         IF d = e[1].v[2] THEN [entry_id |-> e[1].v[1], quota_mins |-> e[1].v[4]]
         ELSE [entry_id |-> e[2].v[1], quota_mins |-> e[2].v[4]]]

ShortName(did) == JStr(<<"...">> \o SubSeq(did.v, Len(did.v) - 5, Len(did.v)))

\* The devices of child c with the display names the cycle could learn.
NamedDevices(c, l) ==
  [i \in DOMAIN FullDevices(c) |->
     LET did == FullDevices(c)[i].device_id
     IN  [device_id |-> did,
          is_locked |-> FullDevices(c)[i].is_locked,
          active_policy |-> FullDevices(c)[i].active_policy,
          override_action |-> FullDevices(c)[i].override_action,
          usage_minutes_today |-> FullDevices(c)[i].usage_minutes_today,
          today_limit_minutes |-> FullDevices(c)[i].today_limit_minutes,
          device_name |-> IF l[<<"names", c>>].ok /\ did \in DOMAIN NamesBody(c)
                          THEN NamesBody(c)[did] ELSE ShortName(did)]]

\* Snapshot d holds, for child c, exactly what the fetches logged in l gave:
\* the empty default for a failed fetch, the full parsed result otherwise.
ChildEntryFrom(d, l, c) ==
  /\ d.usage[c] = IF l[<<"apps", c>>].ok THEN FullUsage(c) ELSE << >>
  /\ d.restrictions[c] = IF l[<<"apps", c>>].ok THEN FullRestrictions(c)
                         ELSE [limited |-> << >>, blocked |-> << >>, always_allowed |-> << >>]
  /\ d.devices[c] = IF l[<<"limits", c>>].ok THEN NamedDevices(c, l) ELSE << >>
  /\ d.daily_limits[c] = IF l[<<"schedule", c>>].ok THEN FullSchedule(c) ELSE << >>

\* Snapshot d was built from the roster and the fetches of one cycle.
BuiltFrom(d, children, l) ==
  /\ d.children = children
  /\ DOMAIN d.usage = Ids(children)
  /\ DOMAIN d.restrictions = Ids(children)
  /\ DOMAIN d.devices = Ids(children)
  /\ DOMAIN d.daily_limits = Ids(children)
  /\ \A c \in Ids(children) : ChildEntryFrom(d, l, c)

\* C1: failure isolation inside a poll cycle.  When every answer received
\* is well formed and the write of renewed cookies does not fail, a cycle in
\* which per-child fetches failed still performs every per-child fetch of
\* every child and publishes a snapshot holding the empty default for each
\* failed fetch and the full parsed result for every other one.
C1_FailureIsolation ==
  (CycleEnded /\ FailedChildFetches # {} /\ WellFormedAnswers /\ last.origin # "persist")
    => /\ AllFetched
       /\ last.result = "snapshot"
       /\ data # None
       /\ BuiltFrom(data[1], locals.children, log)

C1_Witness ==
  /\ CycleEnded
  /\ last.result = "snapshot"
  /\ \E a, b \in Ids(locals.children) :
        /\ a # b
        /\ ~log[<<"apps", a>>].ok
        /\ data[1].usage[a] = << >>
        /\ data[1].usage[b] = FullUsage(b)
        /\ data[1].devices[a] # << >>

\* C2: a SessionExpiredError raised by a per-child fetch aborts the cycle (no
\* snapshot is published for it), invokes the re-authentication hook exactly
\* once and leaves the coordinator awaiting re-authentication.
C2_ChildSessionExpiryAborts ==
  (CycleEnded /\ \E k \in FailedChildFetches : IsInstance(log[k].err, "SessionExpiredError"))
    => /\ last.result # "snapshot"
       /\ last.reauth = 1
       /\ expiry_seen

\* A step that ends a poll cycle.
CycleEnds == pc' = "idle" /\ (pc # "idle" \/ cycle' # cycle)
\* A step in which entry.async_start_reauth is invoked.
HookFires == CycleEnds /\ last'.reauth = 1
\* A step in which a request goes out to the remote API.
RequestSent == \E k \in DOMAIN log' : k \notin DOMAIN log /\ log'[k].resp # NotSent

\* C3: once a session expiry has been detected, and until a fresh session is
\* supplied, the re-authentication hook is not invoked again and no request
\* is sent to the remote API.
C3_HookOncePerExpiry ==
  [][expiry_seen => ~HookFires /\ ~RequestSent]_vars

\* C5: a poll cycle ends by returning a snapshot or by raising UpdateFailed,
\* never with another exception.
C5_NoUnhandledFault ==
  CycleEnded => last.result \in {"snapshot", "UpdateFailed"}

\* C6: the published snapshot changes only when a cycle publishes, and then
\* it is replaced as a whole by a value built from the roster and the fetches
\* of that one cycle; (a reloaded entry starts again without a snapshot).
C6_SnapshotReplacedWhole ==
  [][data' # data =>
       \/ data' = None /\ client' = None /\ cycle' = cycle
       \/ /\ pc = "persist"
          /\ CycleEnds
          /\ data' # None
          /\ BuiltFrom(data'[1], locals.children, log)]_vars

C6_Witness ==
  /\ CycleEnded
  /\ last.result = "snapshot"
  /\ last.replaced
  /\ FailedChildFetches # {}
  /\ BuiltFrom(data[1], locals.children, log)

\* A session that holds an unexpired signing secret.
UsableSession == async_load_session(<<Cookie("SAPISID", ".google.com", NoExp, NoExp)>>)

\* The answer of the client operation behind a logged fetch.
ClientRead(k, resp) ==
  CASE k[1] = "members"  -> async_get_members(UsableSession, resp, MembersBody(1))
    [] k[1] = "apps"     -> async_get_apps_and_usage(UsableSession, resp, AppsBody(k[2], "normal"))
    [] k[1] = "limits"   -> async_get_applied_time_limits(UsableSession, resp, LimitsBody(k[2]))
    [] k[1] = "names"    -> async_get_device_names(UsableSession, resp, NamesBody(k[2]))
    [] k[1] = "schedule" -> async_get_time_limit(UsableSession, resp, ScheduleBody(k[2]))

\* C7: every fetch answered with HTTP 401 or 403 fails with SessionExpiredError,
\* and the cycle it belongs to ends on the re-authentication path, not with a
\* snapshot and not with a failure that leaves the hook alone.
C7_AuthRejectionIsSessionExpired ==
  \A k \in DOMAIN log :
    IsAuthRejection(log[k].resp)
      => /\ IsInstance(log[k].err, "SessionExpiredError")
         /\ CycleEnded => (last.result # "snapshot" /\ last.reauth = 1)

\* C8: a fetch that failed in the transport fails with an error kind other
\* than the one the same operation reports for a non-auth HTTP error, and the
\* cycle it belongs to does not invoke the re-authentication hook.
C8_TransportFailureIsDistinct ==
  \A k \in DOMAIN log :
    IsTransportFailure(log[k].resp)
      => /\ log[k].err.kind # ClientRead(k, Http(500)).err.kind
         /\ CycleEnded => last.reauth = 0

\* ------------------------------------------------------------------------
\* Claims about the session store and the secret extraction
\* ------------------------------------------------------------------------
IsSigningCookie(c) == c.name \in SAPISID_NAMES

\* The cookie carries no expiry at all, or a numeric expiry after the clock.
NotExpired(c) ==
  \/ c.expires = NoExp /\ c.expirationDate = NoExp
  \/ c.expires.t = "num" /\ c.expires.v > Now
  \/ c.expires = NoExp /\ c.expirationDate.t = "num" /\ c.expirationDate.v > Now

HasValidSigningCookie(cookies) ==
  \E i \in DOMAIN cookies : IsSigningCookie(cookies[i]) /\ NotExpired(cookies[i])

LacksSigningCookie(session_data) ==
  session_data = None \/ \A i \in DOMAIN session_data[1] : ~IsSigningCookie(session_data[1][i])

\* The cookie lists that differ from  cookies  at most in the expiry fields
\* of cookies outside the signing set.
ExpiryVariants(cookies) ==
  { [i \in DOMAIN cookies |->
       IF IsSigningCookie(cookies[i]) THEN cookies[i]
       ELSE [cookies[i] EXCEPT !.expires = e[i][1], !.expirationDate = e[i][2]]] :
    e \in [DOMAIN cookies -> ExpiryShapes] }

\* C11: is_authenticated returns False when no session or an empty cookie
\* list is loaded, and it gives the same answer to every session that
\* differs from the loaded one only in the expiry fields of cookies outside
\* the signing set.
C11_OnlySigningExpiryCounts ==
  sess_auth # None
    => /\ (sess_data = None \/ sess_config = << >>) => sess_auth[1] = FALSE
       /\ sess_data # None
            => \A other \in ExpiryVariants(sess_data[1]) :
                 is_authenticated(Some(other)) = sess_auth[1]

\* A loaded session whose only expired cookie lies outside the signing set,
\* accepted by is_authenticated.
C11_Witness ==
  /\ sess_data # None
  /\ sess_auth = Some(TRUE)
  /\ \E i, j \in DOMAIN sess_data[1] :
        /\ ~IsSigningCookie(sess_data[1][i])
        /\ sess_data[1][i].expires = NumExp(PAST)
        /\ IsSigningCookie(sess_data[1][j])

\* C9: for every loaded session that holds a signing cookie with no expiry
\* or a future expiry, is_authenticated returns True, whatever the other
\* cookies and their order.
C9_ValidSigningCookieIsUsable ==
  (sess_auth # None /\ sess_data # None /\ HasValidSigningCookie(sess_data[1]))
    => sess_auth[1] = TRUE

\* C10: for every session lacking any signing cookie, _get_sapisid fails
\* with the no-secret error (AuthenticationError), also when
\* is_authenticated returned True, and that error is not a session expiry.
C10_NoSecretIsDistinctError ==
  (sess_secret # None /\ LacksSigningCookie(sess_data))
    => /\ ~sess_secret[1].ok
       /\ sess_secret[1].err.kind = "AuthenticationError"
       /\ ~IsInstance(sess_secret[1].err, "SessionExpiredError")

\* A loaded session without signing cookie that is_authenticated accepted
\* and for which the secret extraction was attempted.
C10_Witness ==
  /\ sess_data # None /\ LacksSigningCookie(sess_data)
  /\ sess_auth = Some(TRUE)
  /\ sess_secret # None /\ ~sess_secret[1].ok

\* ------------------------------------------------------------------------
\* Normalizer specification: the parsers of client/parsers.py applied once
\* to a synthetic response.  An input names the parser, and for the
\* applied-time-limits endpoint the response shape, the logical state of
\* each device and an optional record without device id put among them.
\* ------------------------------------------------------------------------
MaxRecords == 2

PosNames == <<"1", "2", "3", "4">>
AppTitles == <<"App1", "App2", "App3", "App4">>
AppPackages == <<"com.example.app1", "com.example.app2", "com.example.app3", "com.example.app4">>
LogicalDeviceId(i) == JStr(<<"d", "e", "v", PosNames[i]>>)

\* Logical state of one device besides its id: locked, the action field of
\* the active override as the API sends it (None when there is no override,
\* null for an override record that names no action), milliseconds used
\* today as the decimal text the API sends, and today's quota in minutes.
\* A device without quota has used under a minute, one with a quota more;
\* the override without action is put on devices without quota.
DeviceStates ==
  { st \in [locked : BOOLEAN,
            override : {None, Some(JInt(1)), Some(JNull)},
            used : {<<"5", "9", "9", "9", "9">>, <<"1", "2", "0", "0", "0", "1">>},
            quota : {None, Some(95)}] :
      /\ (st.quota = None) <=> (st.used = <<"5", "9", "9", "9", "9">>)
      /\ st.override = Some(JNull) => st.quota = None }

\* The policy name that stands for a logical state.
PolicyOf(st) ==
  IF st.override # None THEN "override"
  ELSE IF st.locked THEN "timeLimitOn" ELSE "noActivePolicy"

\* Keyed-object record of a device.  The shape has no field for the action
\* of an override: an active override shows as activePolicy "override".
KeyedRecord(id, st) ==
  JDict([deviceId |-> id,
         isLocked |-> JBool(st.locked),
         activePolicy |-> JText(PolicyOf(st)),
         currentUsageUsedMillis |-> JStr(st.used),
         currentUsageLimitEntry |->
           JDict([usageQuotaMins |-> IF st.quota = None THEN JNull ELSE JInt(st.quota[1])])])

\* Positional record of a device: id at index 25, lock at 28, overrides at
\* 30 (the action second in the first override), used at 19, quota at 6.
LegacyRecord(id, st) ==
  JList([[[[[Padding(31) EXCEPT ![26] = id]
                         EXCEPT ![29] = JBool(st.locked)]
                         EXCEPT ![31] = IF st.override = None THEN JNull
                                        ELSE JList(<<JList(<<JNull, st.override[1]>>)>>)]
                         EXCEPT ![20] = JStr(st.used)]
                         EXCEPT ![7] = IF st.quota = None THEN JNull ELSE JInt(st.quota[1])])

RecordOf(shape, id, st) ==
  IF shape = "keyed" THEN KeyedRecord(id, st) ELSE LegacyRecord(id, st)

\* Records that yield no non-empty device id.
BadKinds == {"scalar", "missing", "empty", "untyped"}
BadState == [locked |-> TRUE, override |-> Some(JInt(1)), used |-> <<"1", "2", "0", "0", "0", "1">>,
             quota |-> Some(95)]

BadRecord(shape, kind) ==
  CASE kind = "scalar" -> JInt(7)
    [] kind = "missing" ->
         IF shape = "keyed"
         THEN JDict([isLocked |-> JBool(TRUE), currentUsageUsedMillis |-> JStr(BadState.used)])
         ELSE JList(Padding(3))
    [] kind = "empty" -> RecordOf(shape, JStr(<< >>), BadState)
    [] kind = "untyped" -> RecordOf(shape, IF shape = "keyed" THEN JNull ELSE JInt(5), BadState)

InsertAt(s, k, x) == SubSeq(s, 1, k - 1) \o <<x>> \o SubSeq(s, k, Len(s))

Records(shape, states) == [i \in DOMAIN states |-> RecordOf(shape, LogicalDeviceId(i), states[i])]

Response(shape, records) ==
  IF shape = "keyed" THEN JDict([appliedTimeLimits |-> JList(records)])
  ELSE JList(<<JList(<< >>), JList(records)>>)

\* The response an input stands for.
RawLimits(in) ==
  Response(in.shape,
           IF in.bad = None THEN Records(in.shape, in.states)
           ELSE InsertAt(Records(in.shape, in.states), in.bad[1].at,
                         BadRecord(in.shape, in.bad[1].kind)))

BadPlaces(states) ==
  {None} \cup { Some([at |-> k, kind |-> kind]) : k \in 1..(Len(states) + 1), kind \in BadKinds }

\* (The input sets take their bound as a parameter, so that they are
\* built where a specification draws from them.)
LimitsInputs(n) ==
  UNION { { [op |-> "limits", shape |-> shape, states |-> states, bad |-> bad, apps |-> << >>,
              sessions |-> << >>] :
              shape \in {"keyed", "legacy"}, bad \in BadPlaces(states) } :
          states \in SeqsUpTo(DeviceStates, n) }

\* App entries: every combination of hidden flag, usage limit,
\* always-allowed flag and limit capability; the title names the position.
AppSettings ==
  [hidden : BOOLEAN,
   usageLimit : {None, Some([nonempty |-> TRUE, dailyUsageLimitMins |-> Some(60)])},
   alwaysAllowedState : {"", "alwaysAllowedStateEnabled"}]

AppShapes == [setting : AppSettings, caps : {<< >>, <<"capabilityUsageLimit">>}]

AppEntry(i, shape) ==
  [packageName |-> Some(AppPackages[i]), title |-> Some(AppTitles[i]),
   supervisionSetting |-> Some(shape.setting),
   supervisionCapabilities |-> shape.caps]

AppsInputs(n) ==
  { [op |-> "apps", shape |-> "", states |-> << >>, bad |-> None,
     apps |-> [i \in DOMAIN shapes |-> AppEntry(i, shapes[i])], sessions |-> << >>] :
      shapes \in SeqsUpTo(AppShapes, n) }

\* Usage sessions of one installed app: dated today or on another day, with
\* a usage text that is a number of seconds, or is not.
Yesterday == [year |-> 2026, month |-> 11, day |-> 2]
UsageTexts ==
  { <<"5", "s">>, <<"3", "0", "s">>, <<"N", "a", "N">>, <<"I", "n", "f", "i", "n", "i", "t", "y">>,
    <<"x", "y">>, << >> }
NonNumericTexts == UsageTexts \ { <<"5", "s">>, <<"3", "0", "s">> }
InventoryApp == AppEntry(1, [setting |-> NoSetting, caps |-> << >>])

UsageSessions ==
  { UsageSession(AppPackages[1], usage, date) : usage \in UsageTexts, date \in {Today, Yesterday} }

UsageInputs(n) ==
  { [op |-> "usage", shape |-> "", states |-> << >>, bad |-> None,
     apps |-> <<InventoryApp>>, sessions |-> sessions] :
      sessions \in SeqsUpTo(UsageSessions, n) }

\* Bodies of the timeLimit endpoint, by name: text that is not JSON, a
\* top-level list that is too short, a wrong nesting, a JSON object, the
\* schedule list null, a number or a string, and schedule lists that are
\* empty, well formed, or well formed with malformed entries among them.
ScheduleShapes ==
  {"notjson", "short", "nesting", "object", "null", "number", "text", "empty", "good", "mixed"}

MondayEntry == JList(<<JText("CAEQAQ"), JInt(1), JInt(2), JInt(60)>>)
TuesdayEntry == JList(<<JText("CAEQAg"), JInt(2), JInt(2), JInt(90)>>)

\* A body with  entries  at data[1][1][0][2].
ScheduleAround(entries) ==
  JList(<<JNull, JList(<<JNull, JList(<<JList(<<JNull, JNull, entries>>)>>)>>)>>)

ScheduleText(shape) ==
  CASE shape = "notjson" -> None
    [] shape = "short"   -> Some(JList(<<JNull>>))
    [] shape = "nesting" -> Some(JList(<<JNull, JList(<<JNull, JInt(5)>>)>>))
    [] shape = "object"  -> Some(JDict(<< >>))
    [] shape = "null"    -> Some(ScheduleAround(JNull))
    [] shape = "number"  -> Some(ScheduleAround(JInt(7)))
    [] shape = "text"    -> Some(ScheduleAround(JStr(<<"a", "b">>)))
    [] shape = "empty"   -> Some(ScheduleAround(JList(<< >>)))
    [] shape = "good"    -> Some(ScheduleAround(JList(<<MondayEntry, TuesdayEntry>>)))
    [] shape = "mixed"   ->
         Some(ScheduleAround(JList(<<MondayEntry, JList(<<JText("short")>>), JInt(3),
                                     JList(<<JText("x"), JList(<< >>), JInt(2), JInt(5)>>),
                                     TuesdayEntry>>)))

ScheduleInputs ==
  { [op |-> "schedule", shape |-> shape, states |-> << >>, bad |-> None, apps |-> << >>,
     sessions |-> << >>] : shape \in ScheduleShapes }

ParseInit ==
  /\ parse_in \in { Some(in) : in \in LimitsInputs(MaxRecords) \cup AppsInputs(MaxRecords)
                                       \cup UsageInputs(MaxRecords) \cup ScheduleInputs }
  /\ parse_out = None
  /\ sess_config = << >>
  /\ SessInitState
  /\ entry_cookies = << >>
  /\ CoordInitState
  /\ ClientInitState

ParseLimits ==
  /\ parse_out = None
  /\ parse_in[1].op = "limits"
  /\ parse_out' = Some(parse_applied_time_limits(RawLimits(parse_in[1])))
  /\ UNCHANGED <<sessVars, coordVars, clientVars, parse_in>>

ParseApps ==
  /\ parse_out = None
  /\ parse_in[1].op = "apps"
  /\ parse_out' = Some(parse_restrictions([apps |-> parse_in[1].apps,
                                           appUsageSessions |-> << >>]))
  /\ UNCHANGED <<sessVars, coordVars, clientVars, parse_in>>

ParseUsage ==
  /\ parse_out = None
  /\ parse_in[1].op = "usage"
  /\ parse_out' = Some(parse_usage([apps |-> parse_in[1].apps,
                                    appUsageSessions |-> parse_in[1].sessions]))
  /\ UNCHANGED <<sessVars, coordVars, clientVars, parse_in>>

\* async_get_time_limit on an HTTP 200 answer with the body of the input.
ParseSchedule ==
  /\ parse_out = None
  /\ parse_in[1].op = "schedule"
  /\ parse_out' = Some(async_get_time_limit(UsableSession, Http(200),
                                            ScheduleText(parse_in[1].shape)))
  /\ UNCHANGED <<sessVars, coordVars, clientVars, parse_in>>

ParseNext == ParseLimits \/ ParseApps \/ ParseUsage \/ ParseSchedule

ParseSpec == ParseInit /\ [][ParseNext]_vars

\* ------------------------------------------------------------------------
\* Properties of the normalizer
\* ------------------------------------------------------------------------
ParsedLimits == parse_out # None /\ parse_in[1].op = "limits"
ParsedApps == parse_out # None /\ parse_in[1].op = "apps"

OtherShape(shape) == IF shape = "keyed" THEN "legacy" ELSE "keyed"

\* C17: a keyed-object response and a positional response that encode the
\* same logical device states (id, locked, active override action, used
\* milliseconds, today's quota) give the same parse_applied_time_limits
\* output, field for field.
C17_RoundTrip ==
  (ParsedLimits /\ parse_in[1].bad = None)
    => parse_out[1] =
         parse_applied_time_limits(
           RawLimits([parse_in[1] EXCEPT !.shape = OtherShape(parse_in[1].shape)]))

\* C18: in both shapes a record that yields no non-empty device id is
\* dropped, and the other records of the response give the devices, in the
\* order, they give when the record is absent.
C18_BadRecordDropped ==
  (ParsedLimits /\ parse_in[1].bad # None)
    => /\ parse_out[1] = parse_applied_time_limits(RawLimits([parse_in[1] EXCEPT !.bad = None]))
       /\ Len(parse_out[1]) = Len(parse_in[1].states)
       /\ \A i \in DOMAIN parse_out[1] : parse_out[1][i].device_id = LogicalDeviceId(i)

\* A record without id stands before and between well-formed ones, in
\* either shape, and both of those were parsed.
C18_Witness ==
  /\ ParsedLimits
  /\ parse_in[1].bad # None
  /\ parse_in[1].bad[1].at = 2
  /\ parse_in[1].bad[1].kind = "empty"
  /\ parse_in[1].shape = "legacy"
  /\ Len(parse_in[1].states) = 2
  /\ Len(parse_out[1]) = 2

InSeq(x, s) == \E k \in DOMAIN s : s[k] = x
LimitedTitles(out) == [k \in DOMAIN out.limited |-> out.limited[k].app]
SupervisableTitles(out) == [k \in DOMAIN out.supervisable |-> out.supervisable[k].title]

\* The lists of the three restricted states that name a title.
ListsNaming(out, title) ==
  { l \in {"blocked", "always_allowed", "limited"} :
      \/ l = "blocked" /\ InSeq(title, out.blocked)
      \/ l = "always_allowed" /\ InSeq(title, out.always_allowed)
      \/ l = "limited" /\ InSeq(title, LimitedTitles(out)) }

\* C19: whatever hidden flag, usage limit and always-allowed flag an app
\* entry carries, it appears in at most one of the lists blocked,
\* always_allowed and limited (in none when unrestricted), and at most once.
C19_ClassificationExclusive ==
  ParsedApps =>
    \A i \in DOMAIN parse_in[1].apps :
      LET title == AppTitles[i]
          out == parse_out[1]
      IN  /\ Cardinality(ListsNaming(out, title)) <= 1
          /\ Cardinality({k \in DOMAIN out.blocked : out.blocked[k] = title}) <= 1
          /\ Cardinality({k \in DOMAIN out.always_allowed : out.always_allowed[k] = title}) <= 1
          /\ Cardinality({k \in DOMAIN out.limited : out.limited[k].app = title}) <= 1

\* An entry with all three markers was classified, and one with none.
C19_Witness ==
  /\ ParsedApps
  /\ Len(parse_in[1].apps) = 2
  /\ LET s1 == parse_in[1].apps[1].supervisionSetting[1]
         s2 == parse_in[1].apps[2].supervisionSetting[1]
     IN  /\ s1.hidden /\ s1.usageLimit # None
         /\ s1.alwaysAllowedState = "alwaysAllowedStateEnabled"
         /\ ~s2.hidden /\ s2.usageLimit # None
         /\ s2.alwaysAllowedState = "alwaysAllowedStateEnabled"
  /\ ListsNaming(parse_out[1], AppTitles[1]) = {"blocked"}
  /\ ListsNaming(parse_out[1], AppTitles[2]) = {"limited"}

\* C20: an app is in the supervisable list if and only if it carries
\* capabilityUsageLimit and the state assigned to it is neither Blocked nor
\* AlwaysAllowed, entries with a usage limit and the always-allowed flag
\* included.
C20_SupervisableIffCapableAndNotExcluded ==
  ParsedApps =>
    \A i \in DOMAIN parse_in[1].apps :
      LET title == AppTitles[i]
          out == parse_out[1]
      IN  InSeq(title, SupervisableTitles(out))
            <=> /\ InSeq("capabilityUsageLimit", parse_in[1].apps[i].supervisionCapabilities)
                /\ ~InSeq(title, out.blocked)
                /\ ~InSeq(title, out.always_allowed)

ParsedUsage == parse_out # None /\ parse_in[1].op = "usage"
TodaysSessions(in) == {i \in DOMAIN in.sessions : in.sessions[i].date = Some(Today)}

\* C21: parse_usage returns one record for each session dated today and
\* none for a session of another date, also when the session's package is
\* that of an installed app.
C21_TodayOnly ==
  (ParsedUsage /\ parse_out[1].ok)
    => /\ Len(parse_out[1].value[1]) = Cardinality(TodaysSessions(parse_in[1]))
       /\ \A k \in DOMAIN parse_out[1].value[1] :
             parse_out[1].value[1][k].app_name = AppTitles[1]

\* A session of yesterday for the installed app stands before one of today.
C21_Witness ==
  /\ ParsedUsage
  /\ Len(parse_in[1].sessions) = 2
  /\ parse_in[1].sessions[1] = UsageSession(AppPackages[1], <<"3", "0", "s">>, Yesterday)
  /\ parse_in[1].sessions[2] = UsageSession(AppPackages[1], <<"5", "s">>, Today)
  /\ parse_out[1].ok
  /\ parse_out[1].value[1] = <<[app_name |-> AppTitles[1], usage_seconds |-> 5]>>

\* C22: the list parse_usage returns is in descending order of
\* usage_seconds: each record has at least the usage of the one after it.
C22_SortedDescending ==
  (ParsedUsage /\ parse_out[1].ok)
    => \A k \in 1..(Len(parse_out[1].value[1]) - 1) :
         parse_out[1].value[1][k].usage_seconds >= parse_out[1].value[1][k + 1].usage_seconds

\* The response lists the shorter session first.
C22_Witness ==
  /\ ParsedUsage
  /\ Len(parse_in[1].sessions) = 2
  /\ parse_in[1].sessions[1] = UsageSession(AppPackages[1], <<"5", "s">>, Today)
  /\ parse_in[1].sessions[2] = UsageSession(AppPackages[1], <<"3", "0", "s">>, Today)
  /\ parse_out[1].ok
  /\ parse_out[1].value[1][1].usage_seconds = 30
  /\ parse_out[1].value[1][2].usage_seconds = 5

\* C23: a session of today whose usage text is not a number (garbage, NaN,
\* an infinity spelling, empty) counts 0 seconds and parse_usage does not
\* raise; the other sessions keep their seconds.
C23_NonNumericUsageIsZero ==
  ParsedUsage =>
    LET in == parse_in[1]
        zeros == {i \in TodaysSessions(in) : in.sessions[i].usage[1] \in NonNumericTexts}
        out == parse_out[1].value[1]
    IN  /\ parse_out[1].ok
        /\ Len(out) = Cardinality(TodaysSessions(in))
        /\ Cardinality({k \in DOMAIN out : out[k].usage_seconds = 0}) = Cardinality(zeros)

TimesIssued(call) == Cardinality({i \in DOMAIN issued : issued[i] = call})

\* C26: in every poll cycle that gets a roster, each per-child fetch
\* (apps-and-usage, applied time limits, device names, weekly schedule) is
\* issued exactly once for each child of the roster, never twice and never
\* for an id outside the roster.
C26_EachFetchOncePerChild ==
  /\ \A i \in DOMAIN issued :
       issued[i][1] \in PerChildOps
         => issued[i][2] \in Ids(locals.children) /\ TimesIssued(issued[i]) = 1
  /\ CycleEnded
       => \A c \in Ids(locals.children), e \in PerChildOps : TimesIssued(<<e, c>>) = 1

\* C29: when cookie values were renewed during a poll cycle that ends with a
\* snapshot, the renewed list is in the config entry's data, its other keys
\* unchanged, when the snapshot is returned; with no renewal the entry is
\* not written; a cycle that fails writes nothing.
C29_RenewalPersisted ==
  [][/\ (pc = "persist" /\ last'.result = "snapshot" /\ last'.renewal)
          => /\ last'.written # None
             /\ last'.written[1].cookies = Renewed(entry_cookies)
             /\ entry_cookies' = Renewed(entry_cookies)
             /\ DOMAIN last'.written[1] = DOMAIN EntryData(entry_cookies)
             /\ \A k \in DOMAIN last'.written[1] \ {"cookies"} :
                  last'.written[1][k] = EntryData(entry_cookies)[k]
     /\ (pc = "persist" /\ last'.result = "snapshot" /\ ~last'.renewal)
          => last'.written = None /\ entry_cookies' = entry_cookies
     /\ (pc # "idle" /\ last'.result \in {"UpdateFailed", "raised"})
          => last'.written = None /\ entry_cookies' = entry_cookies]_vars

\* A cycle has ended with a snapshot and renewed cookies in the entry.
C29_Witness ==
  /\ last.result = "snapshot"
  /\ last.renewal
  /\ entry_cookies # << >>
  /\ \A i \in DOMAIN entry_cookies : entry_cookies[i].value = "renewed"

\* ------------------------------------------------------------------------
\* Properties of the on-demand operations
\* ------------------------------------------------------------------------
ReadOps == {"get_members", "get_app_usage", "get_app_restrictions"}
WriteOps ==
  {"set_app_limit", "remove_app_limit", "block_app", "allow_app", "set_bulk_limit",
   "set_device_bonus_time", "set_daily_limit", "set_today_limit"}

\* The step in which an on-demand operation runs.
CallStep == outcome = NoCall /\ outcome' # NoCall

\* What the snapshot  d  holds for a read  op  with arguments  args.
SnapshotEntry(d, op, args) ==
  IF d = None THEN None
  ELSE IF op = "get_members" THEN Some(d[1].children)
  ELSE IF op = "get_app_usage"
  THEN IF args[1] \in DOMAIN d[1].usage THEN Some(d[1].usage[args[1]]) ELSE None
  ELSE IF args[1] \in DOMAIN d[1].restrictions THEN Some(d[1].restrictions[args[1]])
  ELSE None

\* C25: a read accessor returns the snapshot's entry and sends no request
\* whenever the snapshot holds an entry for what is asked, an empty entry of a
\* degraded child included; it sends a request only when the snapshot is
\* absent or has no such entry.
C25_ReadsServedFromSnapshot ==
  [][CallStep /\ outcome'.op \in ReadOps =>
       LET entry == SnapshotEntry(data, outcome'.op, outcome'.args[1])
       IN  /\ entry # None =>
                /\ outcome'.result.ok
                /\ outcome'.result.value = entry
                /\ requests' = << >>
                /\ client' = client
           /\ requests' # << >> => entry = None]_vars

\* The usage of a degraded child, empty in the snapshot, was asked for and
\* came from the snapshot.
C25_Witness ==
  /\ outcome.op = "get_app_usage"
  /\ data # None
  /\ outcome.args[1][1] \in DOMAIN data[1].usage
  /\ "supervisable" \notin DOMAIN data[1].restrictions[outcome.args[1][1]]
  /\ data[1].usage[outcome.args[1][1]] = << >>
  /\ outcome.result.ok
  /\ outcome.result.value = <<<< >>>>
  /\ requests = << >>

\* The entry is reloaded after a re-authentication: a new coordinator.
ReloadStep == pc = "idle" /\ expiry_seen /\ data' = None /\ last' = NoCycleYet

\* C27: an on-demand write leaves the published snapshot as it is, whether it
\* succeeds or fails and whether or not a poll cycle is in flight; the
\* snapshot changes only when a poll cycle publishes one (or the entry is
\* reloaded).
C27_WritesLeaveSnapshot ==
  [][/\ CallStep /\ outcome'.op \in WriteOps => data' = data
     /\ data' # data =>
          \/ outcome = NoCall /\ outcome' = NoCall /\ pc = "persist" /\ pc' = "idle"
          \/ ReloadStep]_vars

\* A write failed on the wire while a poll cycle was in flight over a
\* published snapshot.
C27_Witness ==
  /\ outcome.op \in WriteOps
  /\ data # None
  /\ pc \notin {"idle"}
  /\ ~outcome.result.ok
  /\ requests # << >>

\* The answer the network gave to a request of the operation that left  o.
AnswerTo(req, o) == IF req.method = "GET" THEN o.args[2][1] ELSE o.args[2][2]

\* The error a failing answer  resp  to  req  has to surface as.
SurfacesAs(e, req, resp) ==
  /\ e.kind = (IF req.method = "GET" THEN "NetworkError" ELSE "DeviceControlError")
  /\ IF resp.status # 0
     THEN e.msg[1] = "HTTP " /\ e.msg[2] = ToString(resp.status)
     ELSE e.msg[1] \in {"Failed to ", "Failed to fetch "} /\ e.msg[Len(e.msg)] = resp.text

\* C28: an error of an on-demand write reaches the caller of the write with
\* its kind: an HTTP failure with its status, a transport failure with its
\* text, an unresolved app name as such; it never becomes a success, starts
\* no re-authentication and leaves the coordinator's client in place.
C28_WriteErrorsSurfaced ==
  [][CallStep /\ outcome'.op \in WriteOps =>
       /\ \A i \in DOMAIN requests' :
            ~IsOkAnswer(AnswerTo(requests'[i], outcome')) =>
              /\ ~outcome'.result.ok
              /\ SurfacesAs(outcome'.result.err, requests'[i],
                            AnswerTo(requests'[i], outcome'))
       /\ ( /\ outcome'.op \in DOMAIN AppWriteModes(30)
            /\ outcome'.args[1][2] \notin {TitleFit}
            /\ requests' # << >> )
          => ~outcome'.result.ok /\ outcome'.result.err = AppNotFound
       /\ ~outcome'.result.ok =>
            /\ expiry_seen' = expiry_seen
            /\ last' = last
            /\ client # None => client' = client]_vars

\* A write was answered 401 after a cycle had set the client up: the caller
\* has the HTTP failure, the client is still there and no re-authentication
\* is pending.
C28_Witness ==
  /\ outcome.op \in WriteOps
  /\ requests # << >>
  /\ outcome.args[2][2] = Http(401)
  /\ ~outcome.result.ok
  /\ outcome.result.err.msg[1] = "HTTP "
  /\ client # None
  /\ ~expiry_seen
  /\ cycle > 0

\* The body a schedule write has to carry for the entry id  entry_id.
ScheduleWriteBody(o, entry_id) ==
  IF o.op = "set_daily_limit"
  THEN DailyLimitPayload(o.args[1][1], entry_id, o.args[1][3])
  ELSE TodayLimitPayload(o.args[1][1], o.args[1][2], entry_id, o.args[1][4])

\* The day number among the arguments of a schedule write.
DayOf(o) == IF o.op = "set_daily_limit" THEN o.args[1][2] ELSE o.args[1][3]

\* The entry id the snapshot  d  stores for the child and day of  o, if any.
StoredEntryId(d, o) ==
  IF d = None THEN None
  ELSE IF o.args[1][1] \notin DOMAIN d[1].daily_limits THEN None
  ELSE IF JInt(DayOf(o)) \notin DOMAIN d[1].daily_limits[o.args[1][1]] THEN None
  ELSE Some(d[1].daily_limits[o.args[1][1]][JInt(DayOf(o))].entry_id)

\* A schedule write sends only the entry id the snapshot  d  stores.
WritesStoredEntryId(d, o, reqs) ==
  \A i \in DOMAIN reqs :
    /\ StoredEntryId(d, o) # None
    /\ reqs[i].method = "POST"
    /\ reqs[i].payload = ScheduleWriteBody(o, StoredEntryId(d, o)[1])

\* C30 as stated: async_set_daily_limit and async_set_today_limit write only
\* with the entry id the snapshot stores for the child and day; without a
\* snapshot or without such an entry they fail with ValueError and send no
\* request.
C30_EntryIdReadBack ==
  [][CallStep /\ outcome'.op \in {"set_daily_limit", "set_today_limit"} =>
       /\ WritesStoredEntryId(data, outcome', requests')
       /\ StoredEntryId(data, outcome') = None =>
            /\ requests' = << >>
            /\ ~outcome'.result.ok
            /\ outcome'.result.err.kind = "ValueError"]_vars

\* C30: async_set_daily_limit and async_set_today_limit write only with the
\* entry id the snapshot stores for the child and day; without a snapshot or
\* without such an entry they send no request and fail: with ValueError when
\* the coordinator has a client, with the error of the client's set-up when
\* the set-up, which comes first, fails.
C30_EntryIdReadBackAfterSetup ==
  [][CallStep /\ outcome'.op \in {"set_daily_limit", "set_today_limit"} =>
       /\ WritesStoredEntryId(data, outcome', requests')
       /\ StoredEntryId(data, outcome') = None =>
            /\ requests' = << >>
            /\ ~outcome'.result.ok
            /\ client' # None => outcome'.result.err.kind = "ValueError"
            /\ client' = None =>
                 outcome'.result.err.kind \in {"AuthenticationError", "SessionExpiredError"}]_vars

\* A schedule write for a day the snapshot has no entry for ended in
\* ValueError without a request.
C30_Witness ==
  /\ outcome.op \in {"set_daily_limit", "set_today_limit"}
  /\ data # None
  /\ outcome.args[1][1] \in DOMAIN data[1].daily_limits
  /\ data[1].daily_limits[outcome.args[1][1]] # << >>
  /\ ~outcome.result.ok
  /\ outcome.result.err.kind = "ValueError"
  /\ requests = << >>

\* ------------------------------------------------------------------------
\* Claims about set-up failures, degraded data and released resources
\* ------------------------------------------------------------------------
\* A cycle that began without a client and ended in the very step that
\* began it: _async_setup_client raised.
SetupFails == pc = "idle" /\ client = None /\ cycle' # cycle /\ pc' = "idle"

\* C31: a cycle whose client set-up fails ends as UpdateFailed without any
\* roster or per-child fetch, and leaves the coordinator without a client.
C31_SetupFailureReported ==
  [][SetupFails =>
       /\ last'.result = "UpdateFailed"
       /\ last'.origin = "setup"
       /\ issued' = << >>
       /\ log' = << >>
       /\ client' = None]_vars

\* The positional record of device i of the parsed response carries an
\* override sub-structure at index 30.
OverridePresent(i) ==
  /\ ParsedLimits
  /\ parse_in[1].shape = "legacy"
  /\ parse_in[1].bad = None
  /\ i \in DOMAIN parse_in[1].states
  /\ JTruthy(At(RecordOf("legacy", LogicalDeviceId(i), parse_in[1].states[i]), 30))

\* C32: a device whose record carries a non-empty override sub-structure is
\* reported with active_policy "override", whatever the action field of
\* that sub-structure holds.
C32_OverridePresenceDecides ==
  \A i \in 1..MaxRecords :
    OverridePresent(i) => parse_out[1][i].active_policy = JText("override")

ParsedSchedule == parse_out # None /\ parse_in[1].op = "schedule"

\* The day map of the well-formed entries of a body.
DaysOf(shape) ==
  IF shape \in {"good", "mixed"}
  THEN [d \in {JInt(1), JInt(2)} |->
          IF d = JInt(1) THEN [entry_id |-> JText("CAEQAQ"), quota_mins |-> JInt(60)]
          ELSE [entry_id |-> JText("CAEQAg"), quota_mins |-> JInt(90)]]
  ELSE << >>

\* C33: for every body of the timeLimit endpoint, malformed or not,
\* async_get_time_limit returns a day map and does not raise; the map holds
\* the well-formed entries of the schedule list, a malformed entry among
\* them being skipped.
C33_MalformedScheduleIsEmpty ==
  ParsedSchedule =>
    /\ parse_out[1].ok
    /\ parse_out[1].value = Some(DaysOf(parse_in[1].shape))

\* A suspended call receives its answer and ends.
FetchCompletes == Len(requests') < Len(requests)

\* C34: the name cache changes only when a call completes with a response;
\* the entry of that call's child is then the whole title-to-package map of
\* that response, with nothing left of the entry it replaces, and the
\* entries of the other children are as they were.
C34_CacheLastWriteWins ==
  [][/\ ~FetchCompletes => app_cache' = app_cache
     /\ FetchCompletes =>
          LET child_id == outcome'.args[1]
              body == outcome'.args[2]
          IN  IF outcome'.result.ok
              THEN /\ DOMAIN app_cache' = DOMAIN app_cache \cup {child_id}
                   /\ app_cache'[child_id] = AppCacheFrom(body)
                   /\ \A c \in DOMAIN app_cache \ {child_id} : app_cache'[c] = app_cache[c]
              ELSE app_cache' = app_cache]_vars

\* With another call still suspended, a response replaced the entry an
\* earlier response of the same child had stored; the other child's entry
\* is in the cache.
C34_Witness ==
  /\ outcome.op = "get_apps"
  /\ outcome.result.ok
  /\ outcome.args[1] = "child1"
  /\ "child1" \in DOMAIN outcome.cache_before
  /\ DOMAIN outcome.cache_before["child1"] = {Lower(TitleFit)}
  /\ DOMAIN app_cache = {"child1", "child2"}
  /\ DOMAIN app_cache["child1"] = {Lower(TitleNay)}
  /\ DOMAIN app_cache["child2"] # {}
  /\ requests # << >>

\* What the coordinator exposes for the subject of fetch k is empty: no
\* snapshot at all, no children for the roster fetch, the empty default of
\* the child for a per-child fetch.
ExposesEmpty(k) ==
  IF data = None THEN TRUE
  ELSE IF k[1] = "members" THEN data[1].children = << >>
  ELSE /\ k[2] \in DOMAIN data[1].usage
       /\ k[1] = "apps" => /\ data[1].usage[k[2]] = << >>
                           /\ data[1].restrictions[k[2]].limited = << >>
                           /\ data[1].restrictions[k[2]].blocked = << >>
                           /\ data[1].restrictions[k[2]].always_allowed = << >>
       /\ k[1] = "limits" => data[1].devices[k[2]] = << >>
       /\ k[1] = "schedule" => data[1].daily_limits[k[2]] = << >>

\* C35: after a poll cycle in which the roster fetch or a per-child fetch
\* failed in the transport, the coordinator exposes empty data for what
\* that fetch covers, not what an earlier cycle published.
C35_TransientDegradesToEmpty ==
  CycleEnded =>
    \A k \in DOMAIN log : IsTransportFailure(log[k].resp) => ExposesEmpty(k)

\* The cycle fetched a roster without supervised children.
EmptyRoster ==
  /\ <<"members", "">> \in DOMAIN log
  /\ log[<<"members", "">>].ok
  /\ locals.children = << >>

\* C36: a poll cycle whose roster has no supervised children succeeds and
\* publishes a snapshot whose children list and usage, restrictions,
\* devices and daily_limits maps are empty.
C36_EmptyRosterPublishes ==
  (CycleEnded /\ EmptyRoster)
    => /\ last.result = "snapshot"
       /\ data = Some([children |-> << >>, usage |-> << >>, restrictions |-> << >>,
                      devices |-> << >>, daily_limits |-> << >>])

\* A non-empty cookie list without any cookie of the signing set.
NoSigningCookie(cookies) ==
  cookies # << >> /\ \A i \in DOMAIN cookies : ~IsSigningCookie(cookies[i])

\* C37: a session whose non-empty cookie list holds no signing cookie is
\* accepted by is_authenticated, and a read the client is then asked for
\* sends its request to the remote API.
C37_UnsignedSessionStillCalls ==
  (NoSigningCookie(sess_config) /\ outcome.op = "get_apps")
    => /\ is_authenticated(sess_data)
       /\ requests # << >>

\* is_authenticated accepted the loaded session on finding a cookie of its
\* signing set that is not expired.
AcceptedBySigningCookie ==
  /\ sess_data # None
  /\ sess_auth = Some(TRUE)
  /\ \E i \in DOMAIN sess_data[1] : IsSigningCookie(sess_data[1][i])

\* C38: for every session that is_authenticated accepts because a cookie of
\* its signing set is present and not expired, _get_sapisid returns a
\* secret and does not raise.
C38_StoreAndSignerAgree ==
  (AcceptedBySigningCookie /\ sess_secret # None) => sess_secret[1].ok

\* The set-up of the cycle found the session's signing cookie expired.
ExpiredAtSetup ==
  /\ last.origin = "setup"
  /\ IsInstance(last.err, "SessionExpiredError") \/ last.err = HookError
  /\ \E i \in DOMAIN entry_cookies :
       IsSigningCookie(entry_cookies[i]) /\ ~NotExpired(entry_cookies[i])

\* C39: a poll cycle invokes entry.async_start_reauth only if its set-up
\* found the signing cookie expired or the remote answered one of its
\* requests with an authentication rejection; a transport failure or a
\* non-auth HTTP error, whatever its text, does not invoke it.
C39_ReauthOnlyOnRejection ==
  (CycleEnded /\ last.reauth = 1)
    => \/ ExpiredAtSetup
       \/ \E k \in DOMAIN log : IsAuthRejection(log[k].resp)

\* C40: after the coordinator's async_cleanup, no aiohttp session opened by
\* a client the coordinator created is open, those of discarded clients
\* included.
C40_TransportsReleased ==
  pc = "unloaded" => ~transports.held /\ ~transports.leaked

====
